---- MODULE Spec2Model ----
(***************************************************************************)
(* State-machine model of the mock tool layer of the predictive            *)
(* maintenance system: ServiceCenterAPI, CustomerNotificationAPI,          *)
(* VehicleTelematicsAPI, MaintenanceHistoryAPI, IternioRouteOptimizer and  *)
(* UEBASecurityMonitor, and of the dashboard's file reader.                *)
(*                                                                         *)
(* Representation of Python values:                                        *)
(*   - an absent / None / empty argument is "" (strings) or <<>> (tuples); *)
(*     both are falsy in Python, which is all the code asks of them;       *)
(*   - a date string "YYYY-MM-DD" is <<y, m, d, p>>, where p = 1 when the  *)
(*     month and day are zero padded and 0 when they are not ("2025-1-6"); *)
(*     strptime accepts both spellings, string comparison tells them apart;*)
(*   - a time string "HH:MM" is <<h, m>>;                                  *)
(*   - a working-hours string "09:00-18:00" is <<9, 0, 18, 0>> and         *)
(*     "closed" is <<>>;                                                   *)
(*   - the appointment ID f"APP{n}" is <<"APP", n>>;                       *)
(*   - datetime.now() reads a clock that is later at every reading.        *)
(***************************************************************************)
EXTENDS Integers, Sequences, FiniteSets, TLC

VARIABLES
    service_centers,      \* ServiceCenterAPI.service_centers
    appointments,         \* ServiceCenterAPI.appointments_db["appointments"]
    next_appointment_id,  \* ServiceCenterAPI.appointments_db["next_appointment_id"]
    sc_clock,             \* readings of datetime.now() taken by ServiceCenterAPI
    sc_call,              \* the arguments of the last ServiceCenterAPI._run
    sc_result,            \* the payload that call returned
    sc_issued,            \* history: the appointment IDs returned so far, in order
    sc_before,            \* history: appointments_db as it was when that call began
    customer_db,          \* CustomerNotificationAPI.customer_db
    notification_history, \* CustomerNotificationAPI.notification_history
    cn_heap,              \* the notification dicts, which both histories refer to
    cn_clock,             \* the second datetime.now() reads in CustomerNotificationAPI
    cn_call,              \* the arguments of the last CustomerNotificationAPI._run
    cn_result,            \* the payload that call returned
    cn_before,            \* history: the notification dicts when that call began
    vt_clock,             \* the half day datetime.now() reads in VehicleTelematicsAPI
    vt_call,              \* the vehicle_id of the last VehicleTelematicsAPI._run
    vt_result,            \* the telematics_data that call returned
    vt_first,             \* history: per vehicle_id, the first telematics_data returned
    vt_returned,          \* what kind of string that call returned
    mh_year,              \* the year datetime.now() reads in MaintenanceHistoryAPI
    mh_vehicle,           \* the vehicle_data of the last _predict_failures
    mh_last,              \* that call: its vehicle_data, vehicle_age and predictions
    mh_prev,              \* history: the call before that one
    mh_request,           \* the arguments of the last MaintenanceHistoryAPI._run
    mh_response,          \* the payload that call returned, with the vehicle_data it used
    report_file,          \* the dashboard's REPORT_FILE: its text, or NoFile
    dash_clock,           \* the instant datetime.now() reads in the dashboard
    dash_response,        \* the last answer of GET /api/dashboard, with the file it found
    th_pc,                \* per concurrent caller of book_appointment: where it is
    th_local,             \* per caller: its appointment_id and the counter value it read
    th_overlaps,          \* history: how often a caller checked while another was before its store
    th_started,           \* history: how many concurrent calls passed the check
    sr_seed,              \* the generator of VehicleTelematicsAPI alone: its current_seed
    sr_steps,             \* how many steps of the generator produced sr_seed
    sr_call,              \* the (min_val, max_val) of the last _seeded_random
    sr_value,             \* the value that call returned
    it_call,              \* the arguments of the last IternioRouteOptimizer._run
    it_result,            \* the payload that call returned
    agent_baselines,      \* UEBASecurityMonitor.agent_baselines
    threat_scores,        \* UEBASecurityMonitor.threat_scores
    anomaly_thresholds,   \* UEBASecurityMonitor.anomaly_thresholds
    security_events,      \* UEBASecurityMonitor.security_events
    security_alerts,      \* UEBASecurityMonitor.security_alerts
    last_analysis_time,   \* the keys of UEBASecurityMonitor.last_analysis_time
    ueba_call,            \* the arguments of the last UEBASecurityMonitor._run
    ueba_result,          \* the payload that call returned
    ueba_before           \* history: the monitor's dicts and lists when that call began

scVars == <<service_centers, appointments, next_appointment_id, sc_clock,
            sc_call, sc_result, sc_issued, sc_before>>

cnVars == <<customer_db, notification_history, cn_heap, cn_clock, cn_call,
            cn_result, cn_before>>

vtVars == <<vt_clock, vt_call, vt_result, vt_first, vt_returned>>

mhVars == <<mh_year, mh_vehicle, mh_last, mh_prev, mh_request, mh_response>>

dashVars == <<report_file, dash_clock, dash_response>>

thVars == <<th_pc, th_local, th_overlaps, th_started>>

srVars == <<sr_seed, sr_steps, sr_call, sr_value>>

itVars == <<it_call, it_result>>

uebaVars == <<agent_baselines, threat_scores, anomaly_thresholds, security_events,
              security_alerts, last_analysis_time, ueba_call, ueba_result,
              ueba_before>>

vars == <<scVars, cnVars, vtVars, mhVars, dashVars, thVars, srVars, itVars, uebaVars>>

\* what a step of one tool leaves alone: the variables of the other tools
notSC == <<cnVars, vtVars, mhVars, dashVars, thVars, srVars, itVars, uebaVars>>
notCN == <<scVars, vtVars, mhVars, dashVars, thVars, srVars, itVars, uebaVars>>
notVT == <<scVars, cnVars, mhVars, dashVars, thVars, srVars, itVars, uebaVars>>
notMH == <<scVars, cnVars, vtVars, dashVars, thVars, srVars, itVars, uebaVars>>
notDash == <<scVars, cnVars, vtVars, mhVars, thVars, srVars, itVars, uebaVars>>
notTh == <<cnVars, vtVars, mhVars, dashVars, srVars, itVars, uebaVars>>
notSR == <<scVars, cnVars, vtVars, mhVars, dashVars, thVars, itVars, uebaVars>>
notIt == <<scVars, cnVars, vtVars, mhVars, dashVars, thVars, srVars, uebaVars>>
notUeba == <<scVars, cnVars, vtVars, mhVars, dashVars, thVars, srVars, itVars>>

----------------------------------------------------------------------------
(* ServiceCenterAPI: the static directory                                  *)

WeekdayHours(wk, sat, sun) ==
    [monday |-> wk, tuesday |-> wk, wednesday |-> wk, thursday |-> wk,
     friday |-> wk, saturday |-> sat, sunday |-> sun]

CommonServices ==
    {"oil_change", "brake_service", "tire_replacement", "battery_check",
     "general_inspection", "ac_service", "engine_diagnostics"}

InitialServiceCenters ==
    [mumbai |->
        [id |-> "mumbai", name |-> "Mumbai Service Center",
         working_hours |-> WeekdayHours(<<9, 0, 18, 0>>, <<9, 0, 16, 0>>, <<>>),
         services |-> CommonServices \cup {"suspension_service"},
         capacity |-> 15],
     delhi |->
        [id |-> "delhi", name |-> "Delhi Service Center",
         working_hours |-> WeekdayHours(<<8, 30, 19, 0>>, <<8, 30, 17, 0>>,
                                        <<10, 0, 15, 0>>),
         services |-> CommonServices \cup {"transmission_service", "electrical_work"},
         capacity |-> 20],
     bangalore |->
        [id |-> "bangalore", name |-> "Bangalore Service Center",
         working_hours |-> WeekdayHours(<<9, 0, 18, 30>>, <<9, 0, 17, 0>>, <<>>),
         services |-> CommonServices \cup {"hybrid_service", "software_updates"},
         capacity |-> 18],
     chennai |->
        [id |-> "chennai", name |-> "Chennai Service Center",
         working_hours |-> WeekdayHours(<<9, 0, 18, 0>>, <<9, 0, 16, 0>>,
                                        <<10, 0, 14, 0>>),
         services |-> CommonServices \cup {"paint_service", "denting_service"},
         capacity |-> 12],
     hyderabad |->
        [id |-> "hyderabad", name |-> "Hyderabad Service Center",
         working_hours |-> WeekdayHours(<<9, 0, 19, 0>>, <<9, 0, 17, 0>>, <<>>),
         services |-> CommonServices \cup {"wheel_alignment", "clutch_service"},
         capacity |-> 16]]

InitialAppointmentsDb ==
    [appointments |-> <<>>, next_appointment_id |-> 1000]

----------------------------------------------------------------------------
(* datetime.strptime / strftime, as far as the code uses them              *)

IsLeap(y) == (y % 4 = 0 /\ y % 100 # 0) \/ y % 400 = 0

DaysInMonth(y, m) ==
    IF m = 2 THEN (IF IsLeap(y) THEN 29 ELSE 28)
    ELSE IF m \in {4, 6, 9, 11} THEN 30 ELSE 31

\* strptime(date, "%Y-%m-%d") raises ValueError unless this holds
DateParses(date) ==
    /\ Len(date) = 4
    /\ date[1] \in 1..9999
    /\ date[2] \in 1..12
    /\ date[3] \in 1..DaysInMonth(date[1], date[2])

\* strptime(time, "%H:%M") raises ValueError unless this holds
TimeParses(time) ==
    /\ Len(time) = 2
    /\ time[1] \in 0..23
    /\ time[2] \in 0..59

MonthOffset == <<0, 3, 2, 5, 0, 3, 5, 1, 4, 6, 2, 4>>

DayNames == <<"sunday", "monday", "tuesday", "wednesday", "thursday",
              "friday", "saturday">>

\* service_date.strftime("%A").lower()
DayName(date) ==
    LET y == IF date[2] < 3 THEN date[1] - 1 ELSE date[1]
        n == (y + (y \div 4) - (y \div 100) + (y \div 400)
                + MonthOffset[date[2]] + date[3]) % 7
    IN  DayNames[n + 1]

\* datetime.time comparison: start <= service_time <= end
TimeLeq(a, b) == a[1] < b[1] \/ (a[1] = b[1] /\ a[2] <= b[2])

----------------------------------------------------------------------------
(* ServiceCenterAPI: the operations                                        *)

\* f"APP{next_appointment_id}"
AppointmentId(n) == <<"APP", n>>

NoId == <<>>

\* dict assignment d[k] = v
DictPut(d, k, v) ==
    [x \in (DOMAIN d) \cup {k} |-> IF x = k THEN v ELSE d[x]]

EmptyDict == [x \in {} |-> x]

\* mutant: the counter is read but not advanced
GenerateAppointmentIdNoAdvance(next) ==
    [appointment_id |-> AppointmentId(next), next_appointment_id |-> next]

\* _generate_appointment_id: the ID issued and the counter after it
GenerateAppointmentId(next) ==
    [appointment_id |-> AppointmentId(next), next_appointment_id |-> next + 1]

\* the appointments counted against the capacity of centre c on date d
AppointmentsOnDate(appts, c, d) ==
    {k \in DOMAIN appts :
        appts[k].service_center_id = c /\ appts[k].date = d}

Unavailable(err) ==
    [available |-> FALSE, error |-> err, capacity_remaining |-> 0]

\* mutant: the capacity test is > instead of >=
CheckAvailabilityOffByOne(centers, appts, c, date, time, service_type) ==
    IF c \notin DOMAIN centers THEN Unavailable("center_not_found")
    ELSE LET center == centers[c] IN
    IF service_type \notin center.services THEN Unavailable("service_not_offered")
    ELSE IF ~DateParses(date) THEN Unavailable("invalid_format")
    ELSE LET working_hours == center.working_hours[DayName(date)] IN
    IF working_hours = <<>> THEN Unavailable("closed")
    ELSE IF ~TimeParses(time) THEN Unavailable("invalid_format")
    ELSE IF ~(/\ TimeLeq(SubSeq(working_hours, 1, 2), time)
              /\ TimeLeq(time, SubSeq(working_hours, 3, 4)))
         THEN Unavailable("outside_hours")
    ELSE LET booked == Cardinality(AppointmentsOnDate(appts, c, date)) IN
    IF booked > center.capacity THEN Unavailable("fully_booked")
    ELSE [available |-> TRUE, error |-> "none",
          capacity_remaining |-> center.capacity - booked]

\* _check_availability
CheckAvailability(centers, appts, c, date, time, service_type) ==
    IF c \notin DOMAIN centers THEN Unavailable("center_not_found")
    ELSE LET center == centers[c] IN
    IF service_type \notin center.services THEN Unavailable("service_not_offered")
    ELSE IF ~DateParses(date) THEN Unavailable("invalid_format")
    ELSE LET working_hours == center.working_hours[DayName(date)] IN
    IF working_hours = <<>> THEN Unavailable("closed")
    ELSE IF ~TimeParses(time) THEN Unavailable("invalid_format")
    ELSE IF ~(/\ TimeLeq(SubSeq(working_hours, 1, 2), time)
              /\ TimeLeq(time, SubSeq(working_hours, 3, 4)))
         THEN Unavailable("outside_hours")
    ELSE LET booked == Cardinality(AppointmentsOnDate(appts, c, date)) IN
    IF booked >= center.capacity THEN Unavailable("fully_booked")
    ELSE [available |-> TRUE, error |-> "none",
          capacity_remaining |-> center.capacity - booked]

\* the appointment dict built by _book_appointment
NewAppointment(centers, id, c, date, time, service_type, name, phone, now) ==
    [id |-> id,
     service_center_id |-> c,
     service_center_name |-> centers[c].name,
     date |-> date, time |-> time, service_type |-> service_type,
     customer_name |-> name, customer_phone |-> phone,
     status |-> "confirmed",
     created_at |-> now,
     cancelled_at |-> <<>>]

\* mutant: the appointment is stored without asking _check_availability
BookAppointmentUnchecked(centers, appts, next, now, c, date, time, service_type, name, phone) ==
    LET g == GenerateAppointmentId(next) IN
    [appointments |->
         DictPut(appts, g.appointment_id,
                 [id |-> g.appointment_id, service_center_id |-> c,
                  service_center_name |-> c,
                  date |-> date, time |-> time, service_type |-> service_type,
                  customer_name |-> name, customer_phone |-> phone,
                  status |-> "confirmed", created_at |-> now + 1,
                  cancelled_at |-> <<>>]),
     next_appointment_id |-> g.next_appointment_id,
     clock |-> now + 1,
     success |-> TRUE, error |-> "none", appointment_id |-> g.appointment_id]

\* _book_appointment: the store, counter and clock after the call, and its result
BookAppointment(centers, appts, next, now, c, date, time, service_type, name, phone) ==
    LET availability == CheckAvailability(centers, appts, c, date, time, service_type) IN
    IF ~availability.available
    THEN [appointments |-> appts, next_appointment_id |-> next, clock |-> now,
          success |-> FALSE, error |-> availability.error, appointment_id |-> NoId]
    ELSE LET g == GenerateAppointmentId(next) IN
         [appointments |->
              DictPut(appts, g.appointment_id,
                      NewAppointment(centers, g.appointment_id, c, date, time,
                                     service_type, name, phone, now + 1)),
          next_appointment_id |-> g.next_appointment_id,
          clock |-> now + 1,
          success |-> TRUE, error |-> "none", appointment_id |-> g.appointment_id]

\* mutant: the status is misspelt
CancelledMisspelt(apt, now) ==
    [apt EXCEPT !.status = "canceled", !.cancelled_at = <<now>>]

\* the record after lines 343-344 of _cancel_appointment
Cancelled(apt, now) ==
    [apt EXCEPT !.status = "cancelled", !.cancelled_at = <<now>>]

\* mutant: an appointment that is already cancelled is cancelled again
CancelOutcomeNoRepeatCheck(appts, id) ==
    IF id \notin DOMAIN appts THEN "appointment_not_found" ELSE "none"

\* the two refusals of _cancel_appointment
CancelOutcome(appts, id) ==
    IF id \notin DOMAIN appts THEN "appointment_not_found"
    ELSE IF appts[id].status = "cancelled" THEN "already_cancelled"
    ELSE "none"

\* mutant: every appointment of the same centre and date is cancelled with it
CancelAppointmentWholeDay(appts, now, id) ==
    LET outcome == CancelOutcome(appts, id) IN
    IF outcome # "none"
    THEN [appointments |-> appts, clock |-> now, success |-> FALSE, error |-> outcome]
    ELSE [appointments |->
              [k \in DOMAIN appts |->
                  IF k \in AppointmentsOnDate(appts, appts[id].service_center_id,
                                              appts[id].date)
                  THEN Cancelled(appts[k], now + 1) ELSE appts[k]],
          clock |-> now + 1, success |-> TRUE, error |-> "none"]

\* _cancel_appointment: the store and clock after the call, and its result
CancelAppointment(appts, now, id) ==
    LET outcome == CancelOutcome(appts, id) IN
    IF outcome # "none"
    THEN [appointments |-> appts, clock |-> now, success |-> FALSE, error |-> outcome]
    ELSE [appointments |-> [appts EXCEPT ![id] = Cancelled(appts[id], now + 1)],
          clock |-> now + 1, success |-> TRUE, error |-> "none"]

\* _get_appointments
GetAppointments(appts, id, c) ==
    IF id # NoId
    THEN IF id \notin DOMAIN appts
         THEN [success |-> FALSE, error |-> "appointment_not_found"]
         ELSE [success |-> TRUE, error |-> "none"]
    ELSE [success |-> TRUE, error |-> "none"]

\* _get_service_centers
GetServiceCenters(centers, c) ==
    IF c # "" /\ c \notin DOMAIN centers
    THEN [success |-> FALSE, error |-> "center_not_found"]
    ELSE [success |-> TRUE, error |-> "none"]

\* mutant: the last of the arguments is not looked at
AllGivenButLast(strs, seqs) ==
    (\A i \in 1..(Len(strs) - 1) : strs[i] # "") /\ (\A i \in DOMAIN seqs : seqs[i] # <<>>)

\* all([...]) over the arguments: None and "" are falsy
AllGiven(strs, seqs) ==
    (\A i \in DOMAIN strs : strs[i] # "") /\ (\A i \in DOMAIN seqs : seqs[i] # <<>>)

\* the payload of _run, reduced to the fields the callers read; ok is the
\* "success" or "available" field, "absent" when the payload has neither
Payload(ok, err, id, remaining) ==
    [ok |-> ok, error |-> err, appointment_id |-> id, capacity_remaining |-> remaining]

Flag(b) == IF b THEN "true" ELSE "false"

----------------------------------------------------------------------------
(* ServiceCenterAPI: the calls the model makes                             *)

MON == <<2025, 1, 6, 1>>          \* "2025-01-06", a Monday
MON_UNPADDED == <<2025, 1, 6, 0>> \* "2025-1-6", the same day spelt differently
SUN == <<2025, 1, 5, 1>>          \* "2025-01-05", a Sunday
BAD_DATE == <<2025, 2, 30, 1>>    \* "2025-02-30"

Request(c, date, time, service_type, name, phone) ==
    [c |-> c, date |-> date, time |-> time, service_type |-> service_type,
     name |-> name, phone |-> phone]

\* the request that fills the smallest centre
MainRequest == Request("chennai", MON, <<10, 0>>, "oil_change", "Asha", "98100")

\* requests that can succeed for another centre or another date string
OtherRequests ==
    {Request("chennai", MON_UNPADDED, <<18, 0>>, "paint_service", "Ravi", "98101"),
     Request("delhi", MON, <<8, 30>>, "electrical_work", "Asha", "98100")}

\* requests that fail whatever the store holds
FailingRequests ==
    {Request("pune", MON, <<10, 0>>, "oil_change", "Asha", "98100"),
     Request("chennai", MON, <<10, 0>>, "hybrid_service", "Asha", "98100"),
     Request("mumbai", SUN, <<10, 0>>, "oil_change", "Asha", "98100"),
     Request("chennai", SUN, <<14, 1>>, "oil_change", "Asha", "98100"),
     Request("chennai", MON, <<24, 0>>, "oil_change", "Asha", "98100"),
     Request("chennai", BAD_DATE, <<10, 0>>, "oil_change", "Asha", "98100"),
     Request("chennai", MON, <<10, 0>>, "oil_change", "", "98100"),
     Request("chennai", <<>>, <<10, 0>>, "oil_change", "Asha", "98100")}

Requests == {MainRequest} \cup OtherRequests \cup FailingRequests

\* the requests that pass the required-field test of _run for book_appointment
CompleteRequests ==
    {r \in Requests :
        AllGiven(<<r.c, r.service_type, r.name, r.phone>>, <<r.date, r.time>>)}

\* the requests given to check_availability
CheckRequests ==
    {MainRequest,
     Request("chennai", MON_UNPADDED, <<18, 0>>, "paint_service", "Ravi", "98101"),
     Request("mumbai", SUN, <<10, 0>>, "oil_change", "Asha", "98100"),
     Request("chennai", MON, <<24, 0>>, "oil_change", "Asha", "98100"),
     Request("chennai", <<>>, <<10, 0>>, "oil_change", "Asha", "98100")}

\* how many stored appointments may be for another centre or date than MainRequest
MaxOther == 1

OtherStored(appts) ==
    Cardinality(DOMAIN appts
                \ AppointmentsOnDate(appts, MainRequest.c, MainRequest.date))

Admitted(appts, r) ==
    (r.c = MainRequest.c /\ r.date = MainRequest.date) \/ OtherStored(appts) < MaxOther

CancelIds == {AppointmentId(1011), AppointmentId(999), NoId}

LookupCenters == {"", "pune"}

\* the (appointment_id, service_center_id) pairs given to get_appointments
Lookups ==
    {[id |-> AppointmentId(1011), c |-> ""], [id |-> AppointmentId(999), c |-> ""],
     [id |-> NoId, c |-> "chennai"]}

UnknownActions == {"reschedule_appointment"}

Call(action, r, id) ==
    [action |-> action, c |-> r.c, date |-> r.date, time |-> r.time,
     service_type |-> r.service_type, name |-> r.name, phone |-> r.phone,
     appointment_id |-> id]

NoRequest == Request("", <<>>, <<>>, "", "", "")

\* self.appointments_db
AppointmentsDb ==
    [appointments |-> appointments, next_appointment_id |-> next_appointment_id]

SCInit ==
    /\ service_centers = InitialServiceCenters
    /\ appointments = EmptyDict
    /\ next_appointment_id = InitialAppointmentsDb.next_appointment_id
    /\ sc_clock = 0
    /\ sc_call = Call("none", NoRequest, NoId)
    /\ sc_result = Payload("absent", "none", NoId, 0)
    /\ sc_issued = <<>>
    /\ sc_before = AppointmentsDb

\* _run(action="check_availability", ...) with the arguments of r
CheckAvailabilityCall(r) ==
    /\ sc_call' = Call("check_availability", r, NoId)
    /\ sc_before' = AppointmentsDb
    /\ UNCHANGED notSC
    /\ sc_result' =
          IF ~AllGiven(<<r.c, r.service_type>>, <<r.date, r.time>>)
          THEN Payload("absent", "missing_parameters", NoId, 0)
          ELSE LET a == CheckAvailability(service_centers, appointments,
                                          r.c, r.date, r.time, r.service_type)
               IN  Payload(Flag(a.available), a.error, NoId, a.capacity_remaining)
    /\ UNCHANGED <<service_centers, appointments, next_appointment_id,
                   sc_clock, sc_issued>>

\* _run(action="check_availability", ...)
RunCheckAvailability == \E r \in CheckRequests : CheckAvailabilityCall(r)

\* mutant: a stored booking takes one slot off the centre's capacity
BookAppointmentCallTakingSlot(r) ==
    /\ sc_call' = Call("book_appointment", r, NoId)
    /\ sc_before' = AppointmentsDb
    /\ UNCHANGED notSC
    /\ IF ~AllGiven(<<r.c, r.service_type, r.name, r.phone>>, <<r.date, r.time>>)
       THEN /\ sc_result' = Payload("absent", "missing_parameters", NoId, 0)
            /\ UNCHANGED <<service_centers, appointments, next_appointment_id,
                           sc_clock, sc_issued>>
       ELSE \E b \in {BookAppointment(service_centers, appointments,
                                     next_appointment_id, sc_clock, r.c, r.date,
                                     r.time, r.service_type, r.name, r.phone)} :
                /\ appointments' = b.appointments
                /\ next_appointment_id' = b.next_appointment_id
                /\ sc_clock' = b.clock
                /\ sc_result' = Payload(Flag(b.success), b.error,
                                        b.appointment_id, 0)
                /\ sc_issued' = IF b.success
                                THEN Append(sc_issued, b.appointment_id)
                                ELSE sc_issued
                /\ service_centers' =
                      IF b.success
                      THEN [service_centers EXCEPT ![r.c].capacity = @ - 1]
                      ELSE service_centers

\* _run(action="book_appointment", ...) with the arguments of r
BookAppointmentCall(r) ==
    /\ sc_call' = Call("book_appointment", r, NoId)
    /\ sc_before' = AppointmentsDb
    /\ UNCHANGED notSC
    /\ IF ~AllGiven(<<r.c, r.service_type, r.name, r.phone>>, <<r.date, r.time>>)
       THEN /\ sc_result' = Payload("absent", "missing_parameters", NoId, 0)
            /\ UNCHANGED <<appointments, next_appointment_id, sc_clock, sc_issued>>
       ELSE \E b \in {BookAppointment(service_centers, appointments,
                                     next_appointment_id, sc_clock, r.c, r.date,
                                     r.time, r.service_type, r.name, r.phone)} :
                /\ appointments' = b.appointments
                /\ next_appointment_id' = b.next_appointment_id
                /\ sc_clock' = b.clock
                /\ sc_result' = Payload(Flag(b.success), b.error,
                                        b.appointment_id, 0)
                /\ sc_issued' = IF b.success
                                THEN Append(sc_issued, b.appointment_id)
                                ELSE sc_issued
    /\ UNCHANGED service_centers

\* _run(action="book_appointment", ...)
RunBookAppointment ==
    \E r \in Requests : Admitted(appointments, r) /\ BookAppointmentCall(r)

\* _run(action="cancel_appointment", appointment_id=id)
CancelAppointmentCall(id) ==
    /\ sc_call' = Call("cancel_appointment", NoRequest, id)
    /\ sc_before' = AppointmentsDb
    /\ UNCHANGED notSC
    /\ IF id = NoId
       THEN /\ sc_result' = Payload("absent", "missing_parameters", NoId, 0)
            /\ UNCHANGED <<appointments, sc_clock>>
       ELSE \E x \in {CancelAppointment(appointments, sc_clock, id)} :
                /\ appointments' = x.appointments
                /\ sc_clock' = x.clock
                /\ sc_result' = Payload(Flag(x.success), x.error, NoId, 0)
    /\ UNCHANGED <<service_centers, next_appointment_id, sc_issued>>

\* _run(action="cancel_appointment", ...)
RunCancelAppointment == \E id \in CancelIds : CancelAppointmentCall(id)

\* _run(action="get_appointments", ...)
RunGetAppointments ==
    \E q \in Lookups :
        /\ sc_call' = Call("get_appointments", [NoRequest EXCEPT !.c = q.c], q.id)
        /\ sc_before' = AppointmentsDb
        /\ UNCHANGED notSC
        /\ LET g == GetAppointments(appointments, q.id, q.c)
           IN  sc_result' = Payload(Flag(g.success), g.error, NoId, 0)
        /\ UNCHANGED <<service_centers, appointments, next_appointment_id,
                       sc_clock, sc_issued>>

\* _run(action="get_service_centers", ...)
RunGetServiceCenters ==
    \E c \in LookupCenters :
        /\ sc_call' = Call("get_service_centers", [NoRequest EXCEPT !.c = c], NoId)
        /\ sc_before' = AppointmentsDb
        /\ UNCHANGED notSC
        /\ LET g == GetServiceCenters(service_centers, c)
           IN  sc_result' = Payload(Flag(g.success), g.error, NoId, 0)
        /\ UNCHANGED <<service_centers, appointments, next_appointment_id,
                       sc_clock, sc_issued>>

\* _run with an action that is none of the five
RunUnknownAction ==
    \E a \in UnknownActions :
        /\ sc_call' = Call(a, NoRequest, NoId)
        /\ sc_before' = AppointmentsDb
        /\ UNCHANGED notSC
        /\ sc_result' = Payload("absent", "unknown_action", NoId, 0)
        /\ UNCHANGED <<service_centers, appointments, next_appointment_id,
                       sc_clock, sc_issued>>

SCNext ==
    \/ RunCheckAvailability
    \/ RunBookAppointment
    \/ RunCancelAppointment
    \/ RunGetAppointments
    \/ RunGetServiceCenters
    \/ RunUnknownAction

\* the calls of the required-field test: MainRequest whole, with each of its
\* arguments left out in turn, and with none given
FieldRequests ==
    {MainRequest, NoRequest,
     [MainRequest EXCEPT !.c = ""], [MainRequest EXCEPT !.date = <<>>],
     [MainRequest EXCEPT !.time = <<>>], [MainRequest EXCEPT !.service_type = ""],
     [MainRequest EXCEPT !.name = ""], [MainRequest EXCEPT !.phone = ""]}

FieldCancelIds == {AppointmentId(1000), NoId}

\* _run for the three actions that test their required arguments
SCFieldsNext ==
    \/ \E r \in FieldRequests : CheckAvailabilityCall(r)
    \/ \E r \in FieldRequests : BookAppointmentCall(r)
    \/ \E id \in FieldCancelIds : CancelAppointmentCall(id)

----------------------------------------------------------------------------
(* CustomerNotificationAPI                                                 *)
(* A notification is one dict that _send_notification appends to both      *)
(* histories, so the histories hold references: indices into cn_heap.      *)
(* f"NOTIF_{customer_id}_{%Y%m%d%H%M%S}" is <<"NOTIF", customer_id, s>>,   *)
(* s the second the clock shows.                                           *)

Customer(id, name, email, phone, by_email, by_sms, by_app_push) ==
    [id |-> id, name |-> name, email |-> email, phone |-> phone,
     preferences |-> [email |-> by_email, sms |-> by_sms, app_push |-> by_app_push],
     notification_history |-> <<>>]

Customers ==
    {Customer("VEH001", "John Smith", "john.smith@email.com", "+1234567890",
              TRUE, TRUE, TRUE),
     Customer("VEH002", "Sarah Johnson", "sarah.johnson@email.com", "+1234567891",
              TRUE, FALSE, TRUE),
     Customer("VEH003", "Mike Davis", "mike.davis@email.com", "+1234567892",
              FALSE, TRUE, TRUE),
     Customer("VEH004", "Emily Wilson", "emily.wilson@email.com", "+1234567893",
              TRUE, TRUE, FALSE),
     Customer("VEH005", "Robert Brown", "robert.brown@email.com", "+1234567894",
              TRUE, TRUE, TRUE),
     Customer("VEH006", "Lisa Garcia", "lisa.garcia@email.com", "+1234567895",
              TRUE, FALSE, TRUE),
     Customer("VEH007", "David Miller", "david.miller@email.com", "+1234567896",
              FALSE, TRUE, TRUE),
     Customer("VEH008", "Jennifer Taylor", "jennifer.taylor@email.com", "+1234567897",
              TRUE, TRUE, TRUE),
     Customer("VEH009", "Christopher Anderson", "chris.anderson@email.com",
              "+1234567898", TRUE, FALSE, FALSE),
     Customer("VEH010", "Amanda White", "amanda.white@email.com", "+1234567899",
              TRUE, TRUE, TRUE)}

\* {customer["id"]: customer for customer in customers}
InitialCustomerDb ==
    [id \in {c.id : c \in Customers} |-> CHOOSE c \in Customers : c.id = id]

ValidStatuses == {"pending", "sent", "delivered", "failed", "read"}

NotificationTypes == {"email", "sms", "app_push"}

NotificationId(customer_id, second) == <<"NOTIF", customer_id, second>>

NoNotificationId == <<>>

\* the notification dict built by _send_notification
NewNotification(customer, customer_id, type, message, subject, now) ==
    [notification_id |-> NotificationId(customer_id, now),
     customer_id |-> customer_id,
     type |-> type,
     message |-> message,
     subject |-> IF type = "email" THEN subject ELSE "",
     status |-> "sent",
     timestamp |-> now,
     recipient |-> [email |-> IF type = "email" THEN customer.email ELSE "",
                    phone |-> IF type = "sms" THEN customer.phone ELSE "",
                    device |-> IF type = "app_push" THEN "app" ELSE ""],
     status_updated |-> <<>>]

\* mutant: the customer's preferences are not looked at
SendNotificationToAnyChannel(db, history, heap, now, customer_id, type, message, subject) ==
    IF customer_id \notin DOMAIN db
    THEN [customer_db |-> db, notification_history |-> history, heap |-> heap,
          success |-> FALSE, error |-> "customer_not_found",
          notification_id |-> NoNotificationId]
    ELSE LET ref == Len(heap) + 1
             n == NewNotification(db[customer_id], customer_id, type, message,
                                  subject, now)
         IN  [customer_db |->
                  [db EXCEPT ![customer_id].notification_history = Append(@, ref)],
              notification_history |-> Append(history, ref),
              heap |-> Append(heap, n),
              success |-> TRUE, error |-> "none",
              notification_id |-> n.notification_id]

\* mutant: the notification is appended to the global history only
SendNotificationGlobalOnly(db, history, heap, now, customer_id, type, message, subject) ==
    IF customer_id \notin DOMAIN db
    THEN [customer_db |-> db, notification_history |-> history, heap |-> heap,
          success |-> FALSE, error |-> "customer_not_found",
          notification_id |-> NoNotificationId]
    ELSE IF ~db[customer_id].preferences[type]
    THEN [customer_db |-> db, notification_history |-> history, heap |-> heap,
          success |-> FALSE, error |-> "channel_disabled",
          notification_id |-> NoNotificationId]
    ELSE LET ref == Len(heap) + 1
             n == NewNotification(db[customer_id], customer_id, type, message,
                                  subject, now)
         IN  [customer_db |-> db,
              notification_history |-> Append(history, ref),
              heap |-> Append(heap, n),
              success |-> TRUE, error |-> "none",
              notification_id |-> n.notification_id]

\* _send_notification: the customers, history and dicts after the call, its result
SendNotification(db, history, heap, now, customer_id, type, message, subject) ==
    IF customer_id \notin DOMAIN db
    THEN [customer_db |-> db, notification_history |-> history, heap |-> heap,
          success |-> FALSE, error |-> "customer_not_found",
          notification_id |-> NoNotificationId]
    ELSE IF ~db[customer_id].preferences[type]
    THEN [customer_db |-> db, notification_history |-> history, heap |-> heap,
          success |-> FALSE, error |-> "channel_disabled",
          notification_id |-> NoNotificationId]
    ELSE LET ref == Len(heap) + 1
             n == NewNotification(db[customer_id], customer_id, type, message,
                                  subject, now)
         IN  [customer_db |->
                  [db EXCEPT ![customer_id].notification_history = Append(@, ref)],
              notification_history |-> Append(history, ref),
              heap |-> Append(heap, n),
              success |-> TRUE, error |-> "none",
              notification_id |-> n.notification_id]

\* the first position of refs whose dict has the ID, 0 when there is none
FirstWithId(heap, refs, id) ==
    LET hits == {i \in DOMAIN refs : heap[refs[i]].notification_id = id}
    IN  IF hits = {} THEN 0 ELSE CHOOSE i \in hits : \A j \in hits : i <= j

SetStatus(heap, ref, status, now) ==
    [heap EXCEPT ![ref].status = status, ![ref].status_updated = <<now>>]

\* lines 283-314 of _update_notification_status, after the status is accepted
ApplyStatus(db, history, heap, now, id, status) ==
    LET i == FirstWithId(heap, history, id) IN
    IF i = 0
    THEN [heap |-> heap, success |-> FALSE, error |-> "notification_not_found",
          old_status |-> ""]
    ELSE LET ref == history[i]
             heap1 == SetStatus(heap, ref, status, now)
             customer_id == heap[ref].customer_id
             j == IF customer_id \in DOMAIN db
                  THEN FirstWithId(heap1, db[customer_id].notification_history, id)
                  ELSE 0
             heap2 == IF j = 0 THEN heap1
                      ELSE SetStatus(heap1, db[customer_id].notification_history[j],
                                     status, now)
         IN  [heap |-> heap2, success |-> TRUE, error |-> "none",
              old_status |-> heap[ref].status]

\* mutant: the new status is stored without being looked up in valid_statuses
UpdateNotificationStatusUnvalidated(db, history, heap, now, id, status) ==
    ApplyStatus(db, history, heap, now, id, status)

\* _update_notification_status: the dicts after the call, and its result
UpdateNotificationStatus(db, history, heap, now, id, status) ==
    IF status \notin ValidStatuses
    THEN [heap |-> heap, success |-> FALSE, error |-> "invalid_status",
          old_status |-> ""]
    ELSE ApplyStatus(db, history, heap, now, id, status)

\* _get_customer_preferences
GetCustomerPreferences(db, customer_id) ==
    IF customer_id \notin DOMAIN db
    THEN [success |-> FALSE, error |-> "customer_not_found", total_notifications |-> 0]
    ELSE [success |-> TRUE, error |-> "none",
          total_notifications |-> Len(db[customer_id].notification_history)]

\* the payload of CustomerNotificationAPI._run
NotifPayload(success, err, id, total) ==
    [success |-> success, error |-> err, notification_id |-> id,
     total_notifications |-> total]

NotifCall(action, customer_id, type, message, subject, id, status) ==
    [action |-> action, customer_id |-> customer_id, notification_type |-> type,
     message |-> message, subject |-> subject, notification_id |-> id,
     status |-> status]

\* the state of the tool that the claims compare across a call
NotificationState ==
    [customer_db |-> customer_db, notification_history |-> notification_history,
     heap |-> cn_heap]

CNInit ==
    /\ customer_db = InitialCustomerDb
    /\ notification_history = <<>>
    /\ cn_heap = <<>>
    /\ cn_clock = 0
    /\ cn_call = NotifCall("none", "", "", "", "", NoNotificationId, "")
    /\ cn_result = NotifPayload(FALSE, "none", NoNotificationId, 0)
    /\ cn_before = NotificationState

\* how many notifications the model sends, and how far its clock runs
MaxNotifications == 2
MaxSecond == 1

SendCustomers == {"VEH001", "VEH002", "VEH011", ""}
SendTypes == {"email", "sms", "fax"}
SendMessages == {"Service due", ""}
UpdateIds ==
    {NotificationId("VEH001", 0), NotificationId("VEH002", 1),
     NotificationId("VEH001", 9), NoNotificationId}
UpdateStatuses == {"delivered", "failed", "bounced", ""}

\* a second passes
Tick ==
    /\ cn_clock < MaxSecond
    /\ cn_clock' = cn_clock + 1
    /\ UNCHANGED <<customer_db, notification_history, cn_heap, cn_call, cn_result,
                   cn_before>>
    /\ UNCHANGED notCN

\* _run(action="send_notification", customer_id=c, notification_type=t, message=msg)
SendNotificationCall(c, t, msg) ==
    /\ cn_call' = NotifCall("send_notification", c, t, msg, "Reminder",
                            NoNotificationId, "")
    /\ cn_before' = NotificationState
    /\ IF c = "" \/ t = "" \/ msg = ""
       THEN /\ cn_result' = NotifPayload(FALSE, "missing_parameters",
                                         NoNotificationId, 0)
            /\ UNCHANGED <<customer_db, notification_history, cn_heap>>
       ELSE IF t \notin NotificationTypes
       THEN /\ cn_result' = NotifPayload(FALSE, "invalid_notification_type",
                                         NoNotificationId, 0)
            /\ UNCHANGED <<customer_db, notification_history, cn_heap>>
       ELSE \E x \in {SendNotification(customer_db, notification_history, cn_heap,
                                       cn_clock, c, t, msg, "Reminder")} :
                /\ customer_db' = x.customer_db
                /\ notification_history' = x.notification_history
                /\ cn_heap' = x.heap
                /\ cn_result' = NotifPayload(x.success, x.error,
                                             x.notification_id, 0)
    /\ UNCHANGED cn_clock
    /\ UNCHANGED notCN

\* _run(action="send_notification", ...)
RunSendNotification ==
    \E c \in SendCustomers, t \in SendTypes, msg \in SendMessages :
        Len(notification_history) < MaxNotifications /\ SendNotificationCall(c, t, msg)

\* _run(action="update_notification_status", ...)
RunUpdateNotificationStatus ==
    \E id \in UpdateIds, st \in UpdateStatuses :
        /\ cn_call' = NotifCall("update_notification_status", "", "", "", "", id, st)
        /\ cn_before' = NotificationState
        /\ IF id = NoNotificationId \/ st = ""
           THEN /\ cn_result' = NotifPayload(FALSE, "missing_parameters",
                                             NoNotificationId, 0)
                /\ UNCHANGED cn_heap
           ELSE \E x \in {UpdateNotificationStatus(customer_db, notification_history,
                                                   cn_heap, cn_clock, id, st)} :
                    /\ cn_heap' = x.heap
                    /\ cn_result' = NotifPayload(x.success, x.error, id, 0)
        /\ UNCHANGED <<customer_db, notification_history, cn_clock>>
        /\ UNCHANGED notCN

\* _run(action="get_customer_preferences", ...)
RunGetCustomerPreferences ==
    \E c \in SendCustomers :
        /\ cn_call' = NotifCall("get_customer_preferences", c, "", "", "",
                                NoNotificationId, "")
        /\ cn_before' = NotificationState
        /\ cn_result' =
              IF c = ""
              THEN NotifPayload(FALSE, "missing_parameters", NoNotificationId, 0)
              ELSE LET g == GetCustomerPreferences(customer_db, c)
                   IN  NotifPayload(g.success, g.error, NoNotificationId,
                                    g.total_notifications)
        /\ UNCHANGED <<customer_db, notification_history, cn_heap, cn_clock>>
        /\ UNCHANGED notCN

\* _run with an action that is none of the three
RunInvalidAction ==
    /\ cn_call' = NotifCall("resend_notification", "", "", "", "",
                            NoNotificationId, "")
    /\ cn_before' = NotificationState
    /\ cn_result' = NotifPayload(FALSE, "invalid_action", NoNotificationId, 0)
    /\ UNCHANGED <<customer_db, notification_history, cn_heap, cn_clock>>
    /\ UNCHANGED notCN

CNNext ==
    \/ Tick
    \/ RunSendNotification
    \/ RunUpdateNotificationStatus
    \/ RunGetCustomerPreferences
    \/ RunInvalidAction

\* the customers of the channel test: VEH003 has e-mail disabled, VEH004
\* app_push, VEH009 SMS and app_push, VEH011 is unknown
ChannelCustomers == {"VEH003", "VEH004", "VEH009", "VEH011"}

\* _run(action="send_notification", ...) over each of the three channels
RunSendOverChannels ==
    \E c \in ChannelCustomers, t \in NotificationTypes :
        Len(notification_history) < MaxNotifications
            /\ SendNotificationCall(c, t, "Service due")

CNChannelsNext ==
    \/ RunSendOverChannels
    \/ RunUpdateNotificationStatus
    \/ RunGetCustomerPreferences
    \/ RunInvalidAction

----------------------------------------------------------------------------
(* VehicleTelematicsAPI                                                    *)
(* The tool has no fields; what a call reads besides its argument is the   *)
(* clock.  A seed is the pair <<high, low>> of its 16-bit halves, so that  *)
(* the products of the generator stay below 2^31.  A reading rounded to k  *)
(* decimals is the integer reading * 10^k; the quotient seed / 0x7fffffff  *)
(* is taken exactly.  The clock counts half days: the timestamp is the     *)
(* count and a date is the count of whole days.                            *)

\* what the model needs of each vehicle ID: the first 8 hex digits of its
\* md5 in two halves, and int(vehicle_id[-3:]) where those are digits
VehicleIds ==
    [VEH001 |-> [md5 |-> <<15412, 11498>>, last3 |-> <<1>>],
     VEH002 |-> [md5 |-> <<40080, 60988>>, last3 |-> <<2>>],
     VEH003 |-> [md5 |-> <<41199, 57625>>, last3 |-> <<3>>],
     VEH004 |-> [md5 |-> <<33868, 35855>>, last3 |-> <<4>>],
     TRUCK  |-> [md5 |-> <<34844, 9863>>,  last3 |-> <<>>]]

\* the same for the other IDs of the fleet, and for IDs with other numbers
MoreVehicleIds ==
    [VEH005 |-> [md5 |-> <<17336, 801>>, last3 |-> <<5>>],
     VEH006 |-> [md5 |-> <<53586, 28927>>, last3 |-> <<6>>],
     VEH007 |-> [md5 |-> <<4669, 41222>>, last3 |-> <<7>>],
     VEH008 |-> [md5 |-> <<9882, 51194>>, last3 |-> <<8>>],
     VEH009 |-> [md5 |-> <<758, 42867>>, last3 |-> <<9>>],
     VEH010 |-> [md5 |-> <<46671, 40025>>, last3 |-> <<10>>],
     VEH000 |-> [md5 |-> <<13697, 9377>>, last3 |-> <<0>>],
     VEH011 |-> [md5 |-> <<9700, 50000>>, last3 |-> <<11>>],
     VEH012 |-> [md5 |-> <<28205, 33944>>, last3 |-> <<12>>],
     VEH100 |-> [md5 |-> <<46271, 55370>>, last3 |-> <<100>>],
     BUS002 |-> [md5 |-> <<16027, 34032>>, last3 |-> <<2>>],
     CAR104 |-> [md5 |-> <<38888, 489>>, last3 |-> <<104>>],
     VAN007 |-> [md5 |-> <<14539, 33863>>, last3 |-> <<7>>]]

IdFacts(vehicle_id) ==
    IF vehicle_id \in DOMAIN VehicleIds THEN VehicleIds[vehicle_id]
    ELSE MoreVehicleIds[vehicle_id]

\* "VEH_sup231" stands for the ID "VEH" followed by the superscript digits
\* 2, 3, 1: str.isdigit() is true of them and int() raises ValueError
MalformedIds == {"VEH_sup231"}

\* int(vehicle_id[-3:]) raises
IntRaises(vehicle_id) == vehicle_id \in MalformedIds

\* mutant: the seed also takes in the clock
GenerateSeedWithClock(vehicle_id) ==
    <<VehicleIds[vehicle_id].md5[1], (VehicleIds[vehicle_id].md5[2] + vt_clock) % 65536>>

\* _generate_seed
GenerateSeed(vehicle_id) == IdFacts(vehicle_id).md5

\* int(vehicle_id[-3:]) if vehicle_id[-3:].isdigit() else 1
VehicleNum(vehicle_id) ==
    LET d == IdFacts(vehicle_id).last3 IN IF d = <<>> THEN 1 ELSE d[1]

\* mutant: the step without "& 0x7fffffff" (the seed kept in 32 bits)
NextSeedUnmasked(seed) ==
    LET low == seed[2] * 20077 + 12345
        high == (low \div 65536) + (seed[1] % 32768) * 20077 + seed[2] * 16838
    IN  <<high % 65536, low % 65536>>

\* (seed * 1103515245 + 12345) & 0x7fffffff, with 1103515245 = 16838 * 2^16 + 20077
NextSeed(seed) ==
    LET low == seed[2] * 20077 + 12345
        high == (low \div 65536) + (seed[1] % 32768) * 20077 + seed[2] * 16838
    IN  <<high % 32768, low % 65536>>

\* the seed after k steps of the generator
RECURSIVE SeedAfter(_, _)
SeedAfter(seed, k) == IF k = 0 THEN seed ELSE SeedAfter(NextSeed(seed), k - 1)

MaxSeed == 2147483647

\* a + b for a, b < 0x7fffffff as [q, r] with a + b = q * 0x7fffffff + r
AddParts(a, b) ==
    IF a >= MaxSeed - b THEN [q |-> 1, r |-> a - (MaxSeed - b)]
    ELSE [q |-> 0, r |-> a + b]

\* seed * width as [q, r] with seed * width = q * 0x7fffffff + r, width < 2^15
Scaled(seed, width) ==
    LET a == seed[1] * width
        x == AddParts((a % 32768) * 65536, seed[2] * width)
        y == AddParts(x.r, a \div 32768)
    IN  [q |-> (a \div 32768) + x.q + y.q, r |-> y.r]

RoundParts(p) == IF p.r > MaxSeed - p.r THEN p.q + 1 ELSE p.q

\* _seeded_random(seed, min_val, max_val) - min_val, in units of 1/width of
\* the range: the whole units, and the value rounded to a unit
SeededRandomFloor(seed, width) == Scaled(NextSeed(seed), width).q

SeededRandomRound(seed, width) == RoundParts(Scaled(NextSeed(seed), width))

\* mutant: every odd-numbered vehicle has minor warnings
GetMaintenanceStatusOddWarned(seed, vehicle_num) ==
    IF vehicle_num \in {2, 4, 6, 8, 10}
    THEN [has_warnings |-> TRUE,
          warning_level |-> IF vehicle_num \in {4, 8} THEN "high" ELSE "medium",
          maintenance_due |-> TRUE]
    ELSE [has_warnings |-> vehicle_num % 2 = 1,
          warning_level |-> IF vehicle_num % 2 = 1 THEN "low" ELSE "none",
          maintenance_due |-> FALSE]

\* _get_maintenance_status
GetMaintenanceStatus(seed, vehicle_num) ==
    IF vehicle_num \in {2, 4, 6, 8, 10}
    THEN [has_warnings |-> TRUE,
          warning_level |-> IF vehicle_num \in {4, 8} THEN "high" ELSE "medium",
          maintenance_due |-> TRUE]
    ELSE [has_warnings |-> vehicle_num \in {3, 7},
          warning_level |-> IF vehicle_num \in {3, 7} THEN "low" ELSE "none",
          maintenance_due |-> FALSE]

\* _generate_dtcs
GenerateDtcs(vehicle_id, maintenance_status) ==
    LET vehicle_num == VehicleNum(vehicle_id) IN
    IF ~maintenance_status.has_warnings THEN <<>>
    ELSE IF vehicle_num = 2 THEN <<"P0300", "P0171">>
    ELSE IF vehicle_num = 4 THEN <<"P0128", "P0420", "P0171">>
    ELSE IF vehicle_num = 6 THEN <<"P0562", "P0118">>
    ELSE IF vehicle_num = 8 THEN <<"P0420", "P0300", "P0128">>
    ELSE IF vehicle_num = 10 THEN <<"P0171", "P0562">>
    ELSE IF vehicle_num = 3 THEN <<"P0420">>
    ELSE IF vehicle_num = 7 THEN <<"P0171">>
    ELSE <<>>

\* _get_driving_style_description
GetDrivingStyleDescription(score) ==
    IF score >= 90 THEN "Excellent - Smooth and efficient driving"
    ELSE IF score >= 80 THEN "Good - Generally safe driving habits"
    ELSE IF score >= 70 THEN "Fair - Some aggressive acceleration/braking"
    ELSE IF score >= 60 THEN "Poor - Frequent harsh driving events"
    ELSE "Critical - Dangerous driving patterns detected"

When(cond, alert) == IF cond THEN <<alert>> ELSE <<>>

\* _generate_alerts; each argument says whether the reading is under its limit
GenerateAlerts(maintenance_status, oil_low, brake_low, battery_low, tire_low, coolant_low) ==
    When(oil_low, "LOW OIL PRESSURE - Check engine oil level immediately")
    \o When(brake_low, "BRAKE PADS WORN - Schedule brake service soon")
    \o When(battery_low, "LOW BATTERY VOLTAGE - Battery may need replacement")
    \o When(tire_low, "LOW TIRE PRESSURE - Check tire inflation")
    \o When(coolant_low, "LOW COOLANT LEVEL - Check for leaks and refill")
    \o When(maintenance_status.maintenance_due,
            "SCHEDULED MAINTENANCE DUE - Contact service department")

\* mutant: one tire is 8 psi low whatever the warning level
TirePressuresOneLow(seed7, level, vehicle_num) ==
    [i \in 1..4 |->
        290 + SeededRandomRound(SeedAfter(seed7, i), 60)
            - (IF i - 1 = vehicle_num % 4 THEN 80 ELSE 0)]

\* tire_pressures, in tenths of a psi
TirePressures(seed7, level, vehicle_num) ==
    [i \in 1..4 |->
        290 + SeededRandomRound(SeedAfter(seed7, i), 60)
            - (IF level = "high" /\ i - 1 = vehicle_num % 4 THEN 80 ELSE 0)]

Clamp(lo, hi, x) == IF x < lo THEN lo ELSE IF x > hi THEN hi ELSE x

\* telematics_data, as _run builds it when the clock shows now
TelematicsData(vehicle_id, now) ==
    LET base_seed == GenerateSeed(vehicle_id)
        vehicle_num == VehicleNum(vehicle_id)
        maintenance_status == GetMaintenanceStatus(base_seed, vehicle_num)
        level == maintenance_status.warning_level
        s1 == NextSeed(base_seed)
        s2 == NextSeed(s1)
        s3 == NextSeed(s2)
        s4 == NextSeed(s3)
        s5 == NextSeed(s4)
        s6 == NextSeed(s5)
        s7 == NextSeed(s6)
        s12 == SeedAfter(s7, 5)
        s13 == NextSeed(s12)
        s14 == NextSeed(s13)
        s15 == NextSeed(s14)
        s16 == NextSeed(s15)
        s17 == NextSeed(s16)
        rpm_base == IF level = "none" THEN 800 ELSE 850
        temp_base == IF level = "none" THEN 195 ELSE 210
        oil_pressure_base == IF level \in {"none", "low"} THEN 40 ELSE 25
        brake_thickness_base == IF level = "none" THEN 8 ELSE 3
        battery_base == IF level = "none" THEN 1260 ELSE 1180
        coolant_drop == IF level \in {"high", "medium"} THEN 20 ELSE 0
        brake == Scaled(NextSeed(s4), 30)
        rear == Scaled(NextSeed(s17), 20)
        both == AddParts(brake.r, rear.r)
        tire_pressures == TirePressures(s7, level, vehicle_num)
        driving_style_base == IF level = "none" THEN 85 ELSE 65
        driving_style_score == driving_style_base - 15 + SeededRandomFloor(s17, 30)
        days_ago == IF maintenance_status.maintenance_due THEN 30 ELSE 15
    IN  [vehicle_id |-> vehicle_id,
         timestamp |-> now,
         engine_data |->
             [rpm |-> rpm_base + SeededRandomRound(s1, 200),
              temperature_f |-> (temp_base - 5) * 10 + SeededRandomRound(s2, 200),
              oil_pressure_psi |->
                  (oil_pressure_base - 5) * 10 + SeededRandomRound(s3, 150)],
         brake_system |->
             [front_pad_thickness_mm |->
                  (brake_thickness_base - 1) * 10 + RoundParts(brake),
              rear_pad_thickness_mm |->
                  (brake_thickness_base - 2) * 10
                      + RoundParts([q |-> brake.q + rear.q + both.q, r |-> both.r])],
         electrical_system |->
             [battery_voltage |-> battery_base - 30 + SeededRandomRound(s5, 70)],
         transmission |-> [temperature_f |-> 1650 + SeededRandomRound(s6, 350)],
         cooling_system |->
             [coolant_level_percent |->
                  Clamp(0, 1000, (75 - coolant_drop) * 10 + SeededRandomRound(s7, 250))],
         tire_pressure_psi |->
             [front_left |-> tire_pressures[1], front_right |-> tire_pressures[2],
              rear_left |-> tire_pressures[3], rear_right |-> tire_pressures[4]],
         vehicle_status |->
             [odometer_miles |->
                  25000 + vehicle_num * 5000 + SeededRandomFloor(s12, 15000),
              fuel_level_percent |-> 250 + SeededRandomRound(s13, 700)],
         gps_location |->
             [latitude |-> 40712800 + vehicle_num * 100000 - 500000 - 10000
                               + SeededRandomRound(s14, 20000),
              longitude |-> 0 - 74006000 + vehicle_num * 100000 - 500000 - 10000
                               + SeededRandomRound(s15, 20000)],
         diagnostic_codes |-> GenerateDtcs(vehicle_id, maintenance_status),
         maintenance_info |->
             [last_service_date |-> (now \div 2) - (days_ago + vehicle_num * 5),
              maintenance_due |-> maintenance_status.maintenance_due,
              warning_level |-> level],
         usage_patterns |->
             [daily_average_miles |-> 30 + SeededRandomFloor(s16, 120),
              driving_style_score |-> driving_style_score,
              driving_style_description |->
                  GetDrivingStyleDescription(driving_style_score)],
         alerts |->
             GenerateAlerts(maintenance_status,
                            oil_pressure_base - 5 + SeededRandomFloor(s3, 15) < 30,
                            brake_thickness_base - 1 + SeededRandomFloor(s4, 3) < 4,
                            battery_base - 30 + SeededRandomFloor(s5, 70) < 1200,
                            \E i \in 1..4 : tire_pressures[i] < 280,
                            75 - coolant_drop + SeededRandomFloor(s7, 25) < 70)]

NoTelematics == <<>>

VTInit ==
    /\ vt_clock = 0
    /\ vt_call = ""
    /\ vt_result = NoTelematics
    /\ vt_first = [v \in {} |-> NoTelematics]
    /\ vt_returned = "nothing"

\* how many half days the model's clock runs
MaxHalfDays == 2

\* half a day passes
HalfDayPasses ==
    /\ vt_clock < MaxHalfDays
    /\ vt_clock' = vt_clock + 1
    /\ UNCHANGED <<vt_call, vt_result, vt_first, vt_returned>>
    /\ UNCHANGED notVT

\* _run(vehicle_id), returning json.dumps(telematics_data, indent=2)
RunTelematics ==
    \E v \in DOMAIN VehicleIds :
        \E data \in {TelematicsData(v, vt_clock)} :
            /\ vt_call' = v
            /\ vt_result' = data
            /\ vt_returned' = "json_data"
            /\ vt_first' = IF v \in DOMAIN vt_first THEN vt_first
                           ELSE [x \in DOMAIN vt_first \cup {v} |->
                                    IF x = v THEN data ELSE vt_first[x]]
            /\ UNCHANGED vt_clock
            /\ UNCHANGED notVT

\* _run(vehicle_id) for the whole fleet and for IDs with other numbers
RunTelematicsFleet ==
    \E v \in DOMAIN VehicleIds \cup DOMAIN MoreVehicleIds :
        /\ vt_call' = v
        /\ vt_result' = TelematicsData(v, vt_clock)
        /\ vt_returned' = "json_data"
        /\ UNCHANGED <<vt_clock, vt_first>>
        /\ UNCHANGED notVT

\* _run(vehicle_id) where a step raises: the except clause returns
\* f"Error generating vehicle telematics data: {str(e)}"
RunTelematicsRaising ==
    \E v \in MalformedIds :
        /\ IntRaises(v)
        /\ vt_call' = v
        /\ vt_result' = NoTelematics
        /\ vt_returned' = "text"
        /\ UNCHANGED <<vt_clock, vt_first>>
        /\ UNCHANGED notVT

VTNext == HalfDayPasses \/ RunTelematics \/ RunTelematicsRaising

VTFleetNext == HalfDayPasses \/ RunTelematicsFleet \/ RunTelematicsRaising

----------------------------------------------------------------------------
(* MaintenanceHistoryAPI._predict_failures                                 *)
(* A rate or probability is the integer rate * 10^6, a multiplier the      *)
(* integer multiplier * 10, and a probability rounded to three decimals    *)
(* the integer probability * 10^3.  The fields of a prediction that are    *)
(* drawn from random (confidence, days to failure and its date) are not    *)
(* in the model.                                                           *)

Component(name, base_failure_rate, age_factor, mileage_factor, usage_factor, climate_factor) ==
    [name |-> name, base_failure_rate |-> base_failure_rate,
     age_factor |-> age_factor, mileage_factor |-> mileage_factor,
     usage_factor |-> usage_factor, climate_factor |-> climate_factor]

\* components; a factor a component does not have is 0, as component.get reads it
Components ==
    <<Component("Brake Pads", 150000, 0, 8, 0, 0),
      Component("Battery", 120000, 50000, 0, 0, 0),
      Component("Alternator", 80000, 0, 5, 0, 0),
      Component("Transmission", 60000, 0, 0, 30000, 0),
      Component("Air Conditioning", 100000, 0, 0, 0, 40000),
      Component("Water Pump", 70000, 20000, 0, 0, 0),
      Component("Starter Motor", 50000, 0, 3, 0, 0)>>

\* usage_multipliers.get(usage_pattern, 1.0)
UsageMultiplier(usage_pattern) ==
    CASE usage_pattern = "city" -> 12
      [] usage_pattern = "highway" -> 9
      [] usage_pattern = "mixed" -> 10
      [] usage_pattern = "heavy_duty" -> 14
      [] OTHER -> 10

\* climate_multipliers.get(climate, 1.0)
ClimateMultiplier(climate) ==
    CASE climate = "temperate" -> 10
      [] climate = "hot" -> 13
      [] climate = "cold" -> 11
      [] climate = "humid" -> 12
      [] OTHER -> 10

ProbabilityCap == 950000

Min(a, b) == IF a <= b THEN a ELSE b

\* base_prob + age_multiplier + mileage_multiplier + usage_multiplier
\* + climate_multiplier
SummedTerms(component, vehicle_age, vehicle_data) ==
    component.base_failure_rate
      + component.age_factor * vehicle_age
      + component.mileage_factor * vehicle_data.mileage
      + (component.usage_factor * UsageMultiplier(vehicle_data.usage_pattern)) \div 10
      + (component.climate_factor * ClimateMultiplier(vehicle_data.climate)) \div 10

\* mutant: the sum is reported without the cap
TotalProbabilityUncapped(component, vehicle_age, vehicle_data) ==
    SummedTerms(component, vehicle_age, vehicle_data)

\* mutant: the mileage is read from an odometer that rolls over at 100000
TotalProbabilityRolledOver(component, vehicle_age, vehicle_data) ==
    Min(component.base_failure_rate
          + component.age_factor * vehicle_age
          + component.mileage_factor * (vehicle_data.mileage % 100000)
          + (component.usage_factor * UsageMultiplier(vehicle_data.usage_pattern)) \div 10
          + (component.climate_factor * ClimateMultiplier(vehicle_data.climate)) \div 10,
        ProbabilityCap)

\* total_probability
TotalProbability(component, vehicle_age, vehicle_data) ==
    Min(SummedTerms(component, vehicle_age, vehicle_data), ProbabilityCap)

\* round() acts on the binary sum, which for a probability halfway between
\* two thousandths lies on one side of the half.  Of the model's mileages,
\* 100 and 1700 put the Alternator halfway (0.0805 and 0.0885): the sum for
\* 100 lies above the half, the sum for 1700 below it.
HalfwayAbove == {<<"Alternator", 100>>}

\* round(total_probability, 3)
Round3(name, mileage, total_probability) ==
    LET q == total_probability \div 1000
        r == total_probability % 1000
    IN  IF r > 500 \/ (r = 500 /\ <<name, mileage>> \in HalfwayAbove)
        THEN q + 1 ELSE q

Severity(total_probability) ==
    IF total_probability > 700000 THEN "High"
    ELSE IF total_probability > 400000 THEN "Medium"
    ELSE "Low"

RecommendedAction(total_probability) ==
    IF total_probability > 700000 THEN "Immediate inspection required"
    ELSE IF total_probability > 400000 THEN "Schedule maintenance"
    ELSE "Continue monitoring"

\* predictions before they are sorted
Predictions(vehicle_data, current_year) ==
    LET vehicle_age == current_year - vehicle_data.year IN
    [i \in DOMAIN Components |->
        LET total_probability == TotalProbability(Components[i], vehicle_age,
                                                  vehicle_data)
        IN  [component |-> Components[i].name,
             failure_probability |->
                 Round3(Components[i].name, vehicle_data.mileage, total_probability),
             severity |-> Severity(total_probability),
             recommended_action |-> RecommendedAction(total_probability)]]

\* mutant: sorted without reverse=True
PlaceSortedAscending(predictions, i) ==
    1 + Cardinality({j \in DOMAIN predictions :
            \/ predictions[j].failure_probability < predictions[i].failure_probability
            \/ /\ predictions[j].failure_probability = predictions[i].failure_probability
               /\ j < i})

\* sorted(predictions, key=failure_probability, reverse=True): the place of
\* predictions[i], equal probabilities staying in their order
PlaceSorted(predictions, i) ==
    1 + Cardinality({j \in DOMAIN predictions :
            \/ predictions[j].failure_probability > predictions[i].failure_probability
            \/ /\ predictions[j].failure_probability = predictions[i].failure_probability
               /\ j < i})

\* _predict_failures
PredictFailures(vehicle_data, current_year) ==
    LET predictions == Predictions(vehicle_data, current_year) IN
    [k \in DOMAIN predictions |->
        predictions[CHOOSE i \in DOMAIN predictions : PlaceSorted(predictions, i) = k]]

VehicleData(year, mileage, usage_pattern, climate) ==
    [year |-> year, mileage |-> mileage, usage_pattern |-> usage_pattern,
     climate |-> climate]

\* a call of _predict_failures: its vehicle_data, the age it computed, its result
Predicted(vehicle_data, current_year) ==
    [vehicle_data |-> vehicle_data,
     vehicle_age |-> current_year - vehicle_data.year,
     predictions |-> PredictFailures(vehicle_data, current_year)]

NotPredicted ==
    [vehicle_data |-> VehicleData(0, 0, "", ""), vehicle_age |-> 0,
     predictions |-> <<>>]

Years == 2021..2023
Mileages == {100, 1700, 18000, 100000, 200000}
UsagePatterns == {"city", "heavy_duty", "off_road"}
Climates == {"hot", "arctic"}

FirstYear == 2025

\* the last year the model's clock reaches
MaxYear == 2026

\* the vehicles a behaviour can begin with, and the one it begins with when
\* it is another tool that is called
Vehicles == {VehicleData(2021, 100, u, c) : u \in UsagePatterns, c \in Climates}
AnyVehicle == {VehicleData(2021, 100, "city", "hot")}

\* MaintenanceHistoryAPI._run: a vehicle_id is the sequence of its
\* characters; "sup2" stands for the superscript digit two, which
\* str.isdigit() accepts

DecimalDigits == {"0", "1", "2", "3", "4", "5", "6", "7", "8", "9"}
OtherDigits == {"sup2"}

\* s.isdigit()
IsDigit(s) == s # <<>> /\ \A i \in DOMAIN s : s[i] \in DecimalDigits \cup OtherDigits

\* s.startswith(prefix)
StartsWith(s, prefix) ==
    Len(s) >= Len(prefix) /\ SubSeq(s, 1, Len(prefix)) = prefix

VEH == <<"V", "E", "H">>

\* mutant: only the prefix of the ID is tested
ValidVehicleIdByPrefix(vehicle_id) == StartsWith(vehicle_id, VEH)

\* not (not vehicle_id.startswith("VEH") or not vehicle_id[3:].isdigit())
ValidVehicleId(vehicle_id) ==
    StartsWith(vehicle_id, VEH) /\ IsDigit(SubSeq(vehicle_id, 4, Len(vehicle_id)))

DigitChar(d) ==
    CASE d = 0 -> "0" [] d = 1 -> "1" [] d = 2 -> "2" [] d = 3 -> "3" [] d = 4 -> "4"
      [] d = 5 -> "5" [] d = 6 -> "6" [] d = 7 -> "7" [] d = 8 -> "8" [] d = 9 -> "9"

\* str(i) for i in 1..99
StrOf(i) == IF i < 10 THEN <<DigitChar(i)>> ELSE <<DigitChar(i \div 10), DigitChar(i % 10)>>

\* s.zfill(width)
ZFill(s, width) == [k \in 1..(width - Len(s)) |-> "0"] \o s

\* f"VEH{str(i).zfill(3)}"
FleetId(i) == VEH \o ZFill(StrOf(i), 3)

Fleet == 1..10

\* vehicles[f"VEH{str(i).zfill(3)}"], drawn being what random.randint(-2000, 8000) gave
FleetVehicle(i, drawn) ==
    [year |-> 2020 + (i % 4),
     make |-> <<"Toyota", "Honda", "Ford", "Chevrolet">>[(i % 4) + 1],
     model |-> <<"Camry", "Accord", "F-150", "Silverado">>[(i % 4) + 1],
     mileage |-> 15000 + (i * 5000) + drawn,
     usage_pattern |-> <<"city", "highway", "mixed", "heavy_duty">>[(i % 4) + 1],
     climate |-> <<"temperate", "hot", "cold", "humid">>[(i % 4) + 1],
     manufacturing_batch |-> <<"BATCH", 2020 + (i % 2), <<"A", "B", "C">>[(i % 3) + 1]>>]

\* _generate_vehicle_data: vehicles.get(vehicle_id, vehicles["VEH001"])
GenerateVehicleData(vehicle_id, drawn) ==
    IF \E i \in Fleet : FleetId(i) = vehicle_id
    THEN FleetVehicle(CHOOSE i \in Fleet : FleetId(i) = vehicle_id, drawn)
    ELSE FleetVehicle(1, drawn)

NoVehicleData ==
    [year |-> 0, make |-> "", model |-> "", mileage |-> 0, usage_pattern |-> "",
     climate |-> "", manufacturing_batch |-> <<>>]

ActionTypes ==
    {"get_history", "predict_failures", "get_rca_data", "add_service_record",
     "get_pattern_analysis"}

MaintRequest(vehicle_id, action_type) ==
    [vehicle_id |-> vehicle_id, action_type |-> action_type]

\* "summary" of the predict_failures payload: the predictions of each severity
Summary(predictions) ==
    [high_risk_components |->
         Cardinality({k \in DOMAIN predictions : predictions[k].severity = "High"}),
     medium_risk_components |->
         Cardinality({k \in DOMAIN predictions : predictions[k].severity = "Medium"}),
     low_risk_components |->
         Cardinality({k \in DOMAIN predictions : predictions[k].severity = "Low"})]

\* the payload of _run: its "status" ("absent" where it has none), the error
\* it reports, the vehicle_data the call worked on, the predictions and
\* their summary (no predictions and the counts 0 where the payload has neither)
MaintResponse(status, error, vehicle_data, predictions) ==
    [status |-> status, error |-> error, vehicle_data |-> vehicle_data,
     predictions |-> predictions, summary |-> Summary(predictions)]

\* _run(vehicle_id, action_type) in the year current_year
RunMaintenance(vehicle_id, action_type, drawn, current_year) ==
    IF ~ValidVehicleId(vehicle_id)
    THEN MaintResponse("error", "invalid_vehicle_id", NoVehicleData, <<>>)
    ELSE LET vehicle_data == GenerateVehicleData(vehicle_id, drawn) IN
         CASE action_type = "predict_failures" ->
                  MaintResponse("absent", "none", vehicle_data,
                                PredictFailures(vehicle_data, current_year))
           [] action_type = "get_pattern_analysis" ->
                  IF current_year = vehicle_data.year
                  THEN MaintResponse("error", "tool_execution_failed", vehicle_data, <<>>)
                  ELSE MaintResponse("absent", "none", vehicle_data, <<>>)
           [] action_type = "add_service_record" ->
                  MaintResponse("success", "none", vehicle_data, <<>>)
           [] action_type \in {"get_history", "get_rca_data"} ->
                  MaintResponse("absent", "none", vehicle_data, <<>>)
           [] OTHER ->
                  MaintResponse("error", "invalid_action_type", vehicle_data, <<>>)

MHInit(vehicles) ==
    /\ mh_year = FirstYear
    /\ mh_vehicle \in vehicles
    /\ mh_last = NotPredicted
    /\ mh_prev = NotPredicted
    /\ mh_request = MaintRequest(<<>>, "none")
    /\ mh_response = MaintResponse("absent", "none", NoVehicleData, <<>>)

\* a year passes
YearPasses ==
    /\ mh_year < MaxYear
    /\ mh_year' = mh_year + 1
    /\ UNCHANGED <<mh_vehicle, mh_last, mh_prev, mh_request, mh_response>>
    /\ UNCHANGED notMH

\* _predict_failures(vehicle_id, vehicle_data) for a vehicle of the usage
\* pattern and climate the behaviour began with
CallPredictFailures ==
    \E year \in Years, mileage \in Mileages :
        \E vehicle_data \in {[mh_vehicle EXCEPT !.year = year, !.mileage = mileage]} :
            /\ mh_vehicle' = vehicle_data
            /\ mh_last' = Predicted(vehicle_data, mh_year)
            /\ mh_prev' = mh_last
            /\ UNCHANGED <<mh_year, mh_request, mh_response>>
            /\ UNCHANGED notMH

MHNext == YearPasses \/ CallPredictFailures

\* the vehicle IDs given to _run: VEH001, VEH003, VEH010, VEH011, VEH1,
\* VEH(sup2), VEH, veh001, VEH01A, VEH 001, TRUCK and the empty string
RunVehicleIds ==
    {FleetId(1), FleetId(3), FleetId(10), FleetId(11), VEH \o <<"1">>,
     VEH \o <<"sup2">>, VEH, <<"v", "e", "h", "0", "0", "1">>,
     VEH \o <<"0", "1", "A">>, VEH \o <<" ", "0", "0", "1">>,
     <<"T", "R", "U", "C", "K">>, <<>>}

RunActionTypes == ActionTypes \cup {"delete_history"}

\* what random.randint(-2000, 8000) gives in the model; 1260 puts the Brake
\* Pads of VEH003 at 0.40008 and 3800 those of VEH010 at 0.7004
MileageDraws == {0 - 2000, 0, 1260, 3800, 8000}

\* _run(vehicle_id, action_type, filters)
RunMaintenanceHistory ==
    \E vehicle_id \in RunVehicleIds, action_type \in RunActionTypes,
       drawn \in MileageDraws :
        /\ mh_request' = MaintRequest(vehicle_id, action_type)
        /\ mh_response' = RunMaintenance(vehicle_id, action_type, drawn, mh_year)
        /\ UNCHANGED <<mh_year, mh_vehicle, mh_last, mh_prev>>
        /\ UNCHANGED notMH

MHRunNext == YearPasses \/ RunMaintenanceHistory

----------------------------------------------------------------------------
(* VehicleTelematicsAPI: the generator and _seeded_random on their own     *)
(*   - a range is Range(lo, hi, per): min_val = lo / per, max_val = hi /   *)
(*     per, so that (-3, 4, 10) is (-0.3, 0.4);                            *)
(*   - the value returned is (units + rest / 0x7fffffff) / per, taken      *)
(*     exactly, plus the error of the float sum where that error carries   *)
(*     the value past max_val (above).                                     *)

Range(lo, hi, per) == [lo |-> lo, hi |-> hi, per |-> per]

\* the (min_val, max_val) that _run passes to _seeded_random
CodeRanges ==
    {Range(0, 200, 1), Range(0 - 5, 15, 1), Range(0 - 5, 10, 1), Range(0 - 1, 2, 1),
     Range(0 - 3, 4, 10), Range(0 - 10, 25, 1), Range(0 - 10, 15, 1),
     Range(0 - 3, 3, 1), Range(0, 15000, 1), Range(0, 70, 1), Range(0 - 1, 1, 100),
     Range(0, 120, 1), Range(0 - 15, 15, 1), Range(0 - 1, 1, 1)}

\* other ranges with min_val <= max_val: (-2.0, 0.1), (-2.0, -0.9), (0.1, 0.3), (5, 5)
OtherRanges ==
    {Range(0 - 20, 1, 10), Range(0 - 20, 0 - 9, 10), Range(1, 3, 10), Range(5, 5, 1)}

\* the ranges, of those above, for which the float sum
\* min_val + 1.0 * (max_val - min_val) is greater than max_val:
\* -2.0 + 1.0 * (0.1 - -2.0) is 0.10000000000000009 and
\* -2.0 + 1.0 * (-0.9 - -2.0) is -0.8999999999999999
FloatSumAbove == {Range(0 - 20, 1, 10), Range(0 - 20, 0 - 9, 10)}

TopSeed == <<32767, 65535>>

\* _seeded_random(seed, min_val, max_val): normalized is 1.0 exactly when the
\* stepped seed is 0x7fffffff, and only then can the float sum pass max_val
SeededRandom(seed, range) ==
    LET stepped == NextSeed(seed)
        p == Scaled(stepped, range.hi - range.lo)
    IN  [units |-> range.lo + p.q, rest |-> p.r,
         above |-> stepped = TopSeed /\ range \in FloatSumAbove]

NoRange == Range(0, 0, 1)

SRInit(seeds) ==
    /\ sr_seed \in seeds
    /\ sr_steps = 0
    /\ sr_call = [called |-> FALSE, seed |-> <<0, 0>>, range |-> NoRange]
    /\ sr_value = [units |-> 0, rest |-> 0, above |-> FALSE]

\* the seeds the generator is started with: the md5 seeds of VEH001 and
\* VEH002 (the second is above 2^31), 0, 2^31 - 1, 2^32 - 1, and the seeds
\* 230538014 and 2088216195, which step to 2^31 - 1 and to 0
StartSeeds ==
    {<<15412, 11498>>, <<40080, 60988>>, <<0, 0>>, TopSeed, <<65535, 65535>>,
     <<3517, 47902>>, <<31863, 42627>>}

\* how many steps of the generator the model takes
MaxSteps == 3

\* current_seed = (current_seed * 1103515245 + 12345) & 0x7fffffff
StepSeed ==
    /\ sr_steps < MaxSteps
    /\ sr_seed' = NextSeed(sr_seed)
    /\ sr_steps' = sr_steps + 1
    /\ UNCHANGED <<sr_call, sr_value>>
    /\ UNCHANGED notSR

\* self._seeded_random(current_seed, min_val, max_val)
CallSeededRandom ==
    \E range \in CodeRanges \cup OtherRanges :
        /\ sr_call' = [called |-> TRUE, seed |-> sr_seed, range |-> range]
        /\ sr_value' = SeededRandom(sr_seed, range)
        /\ UNCHANGED <<sr_seed, sr_steps>>
        /\ UNCHANGED notSR

SRNext == StepSeed \/ CallSeededRandom

----------------------------------------------------------------------------
(* ServiceCenterAPI: book_appointment called from two threads on one       *)
(* instance. The tool takes no lock, so a thread can be switched between   *)
(* the availability check, the read of the counter for the ID, the read    *)
(* and the write of "+= 1", and the store of the appointment.              *)

Callers == {"t1", "t2"}

NoLocal == [appointment_id |-> NoId, counter |-> 0]

ThInit ==
    /\ th_pc = [t \in Callers |-> "idle"]
    /\ th_local = [t \in Callers |-> NoLocal]
    /\ th_overlaps = 0
    /\ th_started = 0

\* how many calls the model lets pass the check, and how many of them
\* while another call is between its check and its store
MaxBookings == 13
MaxOverlaps == 1

\* another caller has passed its check and not yet stored its appointment
OtherInFlight(t) == \E u \in Callers \ {t} : th_pc[u] # "idle"

thShared == <<service_centers, sc_call, sc_result, sc_issued, sc_before>>

\* availability = self._check_availability(...); a refused call returns here
ThreadCheck(t) ==
    /\ th_pc[t] = "idle"
    /\ th_started < MaxBookings
    /\ OtherInFlight(t) => th_overlaps < MaxOverlaps
    /\ LET r == MainRequest
           availability == CheckAvailability(service_centers, appointments, r.c,
                                             r.date, r.time, r.service_type)
       IN  IF availability.available
           THEN /\ th_pc' = [th_pc EXCEPT ![t] = "checked"]
                /\ th_overlaps' = th_overlaps + (IF OtherInFlight(t) THEN 1 ELSE 0)
                /\ th_started' = th_started + 1
           ELSE UNCHANGED <<th_pc, th_overlaps, th_started>>
    /\ UNCHANGED <<appointments, next_appointment_id, sc_clock, th_local>>
    /\ UNCHANGED thShared
    /\ UNCHANGED notTh

\* appointment_id = f"APP{self.appointments_db['next_appointment_id']}"
ThreadReadId(t) ==
    /\ th_pc[t] = "checked"
    /\ th_pc' = [th_pc EXCEPT ![t] = "id_read"]
    /\ th_local' = [th_local EXCEPT
                       ![t].appointment_id = AppointmentId(next_appointment_id)]
    /\ UNCHANGED <<appointments, next_appointment_id, sc_clock, th_overlaps, th_started>>
    /\ UNCHANGED thShared
    /\ UNCHANGED notTh

\* self.appointments_db['next_appointment_id'] += 1: the read
ThreadReadCounter(t) ==
    /\ th_pc[t] = "id_read"
    /\ th_pc' = [th_pc EXCEPT ![t] = "counter_read"]
    /\ th_local' = [th_local EXCEPT ![t].counter = next_appointment_id]
    /\ UNCHANGED <<appointments, next_appointment_id, sc_clock, th_overlaps, th_started>>
    /\ UNCHANGED thShared
    /\ UNCHANGED notTh

\* self.appointments_db['next_appointment_id'] += 1: the write
ThreadWriteCounter(t) ==
    /\ th_pc[t] = "counter_read"
    /\ th_pc' = [th_pc EXCEPT ![t] = "counter_written"]
    /\ next_appointment_id' = th_local[t].counter + 1
    /\ UNCHANGED <<appointments, sc_clock, th_local, th_overlaps, th_started>>
    /\ UNCHANGED thShared
    /\ UNCHANGED notTh

\* self.appointments_db["appointments"][appointment_id] = appointment
ThreadStore(t) ==
    /\ th_pc[t] = "counter_written"
    /\ LET r == MainRequest
           id == th_local[t].appointment_id
       IN  appointments' =
               DictPut(appointments, id,
                       NewAppointment(service_centers, id, r.c, r.date, r.time,
                                      r.service_type, r.name, r.phone, sc_clock + 1))
    /\ sc_clock' = sc_clock + 1
    /\ th_pc' = [th_pc EXCEPT ![t] = "idle"]
    /\ th_local' = [th_local EXCEPT ![t] = NoLocal]
    /\ UNCHANGED <<next_appointment_id, th_overlaps, th_started>>
    /\ UNCHANGED thShared
    /\ UNCHANGED notTh

ThNext ==
    \E t \in Callers :
        \/ ThreadCheck(t)
        \/ ThreadReadId(t)
        \/ ThreadReadCounter(t)
        \/ ThreadWriteCounter(t)
        \/ ThreadStore(t)

----------------------------------------------------------------------------
(* The dashboard backend (dashboard/app.py)                                *)
(*   - a JSON value is Json(type, members), members being the set of      *)
(*     <<key, value>> pairs of an object (the elements of an array);      *)
(*   - a file is NoFile or its text: Text("json", v) is what json.dump    *)
(*     writes for v, Text("other", ...) is text that is not JSON.         *)

Json(type, members) == [type |-> type, members |-> members]

EmptyObject == Json("object", {})

Text(kind, value) == [kind |-> kind, value |-> value]

NoFile == [kind |-> "no_file", value |-> EmptyObject]

\* json.dump(value, f)
JsonDump(value) == Text("json", value)

\* the text of an empty or truncated file
NotJson == Text("other", EmptyObject)

Loaded(raised, value) == [raised |-> raised, value |-> value]

\* json.load(f)
JsonLoad(text) ==
    IF text.kind = "json"
    THEN Loaded("none", text.value)
    ELSE Loaded("JSONDecodeError", EmptyObject)

\* mutant: no except clause, the FileNotFoundError of open() escapes
LoadJsonFileRaising(file) ==
    IF file = NoFile THEN Loaded("FileNotFoundError", EmptyObject) ELSE JsonLoad(file)

\* load_json_file(path): what it returns, or the exception it lets through
LoadJsonFile(file) ==
    IF file = NoFile THEN Loaded("none", EmptyObject) ELSE JsonLoad(file)

\* not report
Falsy(value) == value.members = {}

\* the (body, status) of a Flask response
Response(status, body) == [status |-> status, body |-> body]

PlaceholderText == "Crew report not yet generated. Run main.py first."

\* get_dashboard_data(): an exception that escapes the view is answered
\* by Flask with status 500
GetDashboardData(file, now) ==
    LET report == LoadJsonFile(file) IN
    IF report.raised # "none"
    THEN Response(500, EmptyObject)
    ELSE IF Falsy(report.value)
    THEN Response(503, Json("object", {<<"report_text", PlaceholderText>>,
                                       <<"timestamp", now>>}))
    ELSE Response(200, report.value)

\* output_data of main.py run(), written with json.dump
OutputData(report_text, now) ==
    Json("object", {<<"title", "Automotive Maintenance Report">>,
                    <<"format", "markdown">>,
                    <<"content", report_text>>,
                    <<"timestamp", now>>,
                    <<"raw_json", report_text>>})

NotAsked == [asked |-> FALSE, file |-> NoFile, now |-> 0,
             response |-> Response(0, EmptyObject)]

DashInit ==
    /\ report_file = NoFile
    /\ dash_clock = 0
    /\ dash_response = NotAsked

\* how far the dashboard's clock runs
MaxInstant == 2

ReportTexts == {"# Fleet report", ""}

\* the texts a file can hold that main.py did not write: {}, [], a
\* one-element array, and an empty file
OtherTexts ==
    {JsonDump(EmptyObject), JsonDump(Json("array", {})),
     JsonDump(Json("array", {<<"0", "VEH001">>})), NotJson}

InstantPasses ==
    /\ dash_clock < MaxInstant
    /\ dash_clock' = dash_clock + 1
    /\ UNCHANGED <<report_file, dash_response>>
    /\ UNCHANGED notDash

\* main.py run(): the report is written to the file
WriteReport ==
    \E report_text \in ReportTexts :
        /\ report_file' = JsonDump(OutputData(report_text, dash_clock))
        /\ UNCHANGED <<dash_clock, dash_response>>
        /\ UNCHANGED notDash

\* the file is put there, or replaced, by something else
PutFile ==
    \E text \in OtherTexts :
        /\ report_file' = text
        /\ UNCHANGED <<dash_clock, dash_response>>
        /\ UNCHANGED notDash

\* the file is removed
RemoveFile ==
    /\ report_file # NoFile
    /\ report_file' = NoFile
    /\ UNCHANGED <<dash_clock, dash_response>>
    /\ UNCHANGED notDash

\* GET /api/dashboard
GetDashboard ==
    /\ dash_response' = [asked |-> TRUE, file |-> report_file, now |-> dash_clock,
                         response |-> GetDashboardData(report_file, dash_clock)]
    /\ UNCHANGED <<report_file, dash_clock>>
    /\ UNCHANGED notDash

DashNext == InstantPasses \/ WriteReport \/ PutFile \/ RemoveFile \/ GetDashboard

----------------------------------------------------------------------------
(* IternioRouteOptimizer: get_charging_time                                *)
(* An Optional[int] argument is <<>> when it is None and <<n>> when it is  *)
(* the integer n.  energy_needed_kwh is in hundredths of a kWh:            *)
(* round(((target_level - battery_level) / 100) * 75, 2) is                *)
(* (target_level - battery_level) * 0.75 for all levels of 0..100.         *)

NoInt == <<>>

GivenInt(n) == <<n>>

\* battery_capacity_kwh
BatteryCapacityKwh == 75

\* the payload of get_charging_time, reduced to the error, the arguments
\* echoed and the energy; charging time and cost are left out
ChargingPayload(error, message, battery_level, target_level, charging_power, energy) ==
    [error |-> error, message |-> message,
     current_battery_level |-> battery_level,
     target_battery_level |-> target_level,
     charging_power_kw |-> charging_power,
     energy_needed_kwh |-> energy]

ChargingError(message) == ChargingPayload(TRUE, message, NoInt, NoInt, NoInt, 0)

\* all([...]) over integers: 0 is falsy
AllNonZero(ns) == \A i \in DOMAIN ns : ns[i] # 0

\* _get_charging_time
GetChargingTime(battery_level, target_level, charging_power) ==
    IF ~AllNonZero(<<battery_level, target_level, charging_power>>)
    THEN ChargingError("levels_and_power_required")
    ELSE IF battery_level >= target_level
    THEN ChargingError("already_at_or_above_target")
    ELSE ChargingPayload(FALSE, "none", GivenInt(battery_level),
                         GivenInt(target_level), GivenInt(charging_power),
                         (target_level - battery_level) * BatteryCapacityKwh)

IternioCall(action, battery_level, target_level, charging_power) ==
    [action |-> action, battery_level |-> battery_level,
     target_level |-> target_level, charging_power |-> charging_power]

ItInit ==
    /\ it_call = IternioCall("none", NoInt, NoInt, NoInt)
    /\ it_result = ChargingPayload(FALSE, "none", NoInt, NoInt, NoInt, 0)

\* the levels and powers given to get_charging_time
ChargeLevels == {NoInt, GivenInt(0), GivenInt(1), GivenInt(20), GivenInt(80), GivenInt(100)}
ChargePowers == {NoInt, GivenInt(0), GivenInt(7), GivenInt(50), GivenInt(150)}

\* _run(action="get_charging_time", battery_level=..., target_level=...,
\*      charging_power=...)
RunGetChargingTime ==
    \E battery_level \in ChargeLevels, target_level \in ChargeLevels,
       charging_power \in ChargePowers :
        /\ it_call' = IternioCall("get_charging_time", battery_level, target_level,
                                  charging_power)
        /\ it_result' =
              IF battery_level = NoInt \/ target_level = NoInt \/ charging_power = NoInt
              THEN ChargingError("required_for_calculation")
              ELSE GetChargingTime(battery_level[1], target_level[1],
                                   charging_power[1])
        /\ UNCHANGED notIt

\* _run with an action that is none of the four
RunUnknownIternioAction ==
    /\ it_call' = IternioCall("plan_trip", NoInt, NoInt, NoInt)
    /\ it_result' = ChargingError("unknown_action")
    /\ UNCHANGED notIt

ItNext == RunGetChargingTime \/ RunUnknownIternioAction

----------------------------------------------------------------------------
(* UEBASecurityMonitor                                                     *)
(* A float is the exact fraction <<n, d>> in lowest terms, d > 0.  An item *)
(* of event_data is [metric, numeric, value, text]: value when the item is *)
(* an int or float, text when it is not.  The timestamps the monitor       *)
(* stores (created_at, last_updated, timestamp and the values of           *)
(* last_analysis_time) are left out; last_analysis_time is its key set.    *)

RECURSIVE Gcd(_, _)
Gcd(a, b) == IF b = 0 THEN a ELSE Gcd(b, a % b)

Abs(x) == IF x < 0 THEN 0 - x ELSE x

\* n / d for d > 0
Rat(n, d) == LET g == Gcd(Abs(n), d) IN <<n \div g, d \div g>>

RatAdd(x, y) == Rat(x[1] * y[2] + y[1] * x[2], x[2] * y[2])

RatSub(x, y) == Rat(x[1] * y[2] - y[1] * x[2], x[2] * y[2])

RatMul(x, y) == Rat(x[1] * y[1], x[2] * y[2])

\* x / y for y > 0
RatDiv(x, y) == Rat(x[1] * y[2], x[2] * y[1])

RatAbs(x) == <<Abs(x[1]), x[2]>>

RatLess(x, y) == x[1] * y[2] < y[1] * x[2]

RatMin(x, y) == IF RatLess(y, x) THEN y ELSE x

RatMax(x, y) == IF RatLess(x, y) THEN y ELSE x

Zero == <<0, 1>>

One == <<1, 1>>

Item(metric, value) == [metric |-> metric, numeric |-> TRUE, value |-> value, text |-> ""]

TextItem(metric, text) == [metric |-> metric, numeric |-> FALSE, value |-> Zero, text |-> text]

\* self.default_metrics
DefaultMetrics ==
    [m \in {"activity_frequency", "resource_access_pattern", "communication_frequency",
            "execution_time_variance", "error_rate", "permission_escalations"} |-> Zero]

\* dict.get(key, default)
DictGet(d, key, default) == IF key \in DOMAIN d THEN d[key] ELSE default

\* the baseline an agent is given when it has none
NewBaseline ==
    [metrics |-> DefaultMetrics, sample_count |-> 0, behavior_profile |-> EmptyDict]

\* the loop of _establish_baseline over behavior_data and the count after it
UpdatedBaseline(baseline, behavior_data) ==
    LET items == {behavior_data[i] : i \in DOMAIN behavior_data}
        numbers == {it \in items : it.numeric}
        texts == items \ numbers
        given(m) == CHOOSE it \in numbers : it.metric = m
        said(m) == CHOOSE it \in texts : it.metric = m
        sample_count == baseline.sample_count
    IN  [metrics |->
             [m \in DOMAIN baseline.metrics \cup {it.metric : it \in numbers} |->
                 IF \E it \in numbers : it.metric = m
                 THEN RatDiv(RatAdd(RatMul(DictGet(baseline.metrics, m, Zero),
                                           <<sample_count, 1>>),
                                    given(m).value),
                             <<sample_count + 1, 1>>)
                 ELSE baseline.metrics[m]],
         sample_count |-> sample_count + 1,
         behavior_profile |->
             [m \in DOMAIN baseline.behavior_profile \cup {it.metric : it \in texts} |->
                 IF \E it \in texts : it.metric = m
                 THEN said(m).text ELSE baseline.behavior_profile[m]]]

\* the monitor's dicts and lists
Monitor(baselines, scores, thresholds, events, alerts, analysed) ==
    [agent_baselines |-> baselines, threat_scores |-> scores,
     anomaly_thresholds |-> thresholds, security_events |-> events,
     security_alerts |-> alerts, last_analysis_time |-> analysed]

\* the payload of _run, reduced to its status, threat score, count of
\* anomalies or samples and threat or risk level
UebaPayload(status, score, count, level) ==
    [status |-> status, threat_score |-> score, count |-> count, level |-> level]

\* _establish_baseline: the monitor after the call, and its payload
EstablishBaseline(mon, agent_id, behavior_data) ==
    LET baseline == UpdatedBaseline(DictGet(mon.agent_baselines, agent_id, NewBaseline),
                                    behavior_data)
    IN  [monitor |->
             [mon EXCEPT !.agent_baselines = DictPut(@, agent_id, baseline),
                         !.anomaly_thresholds = DictPut(@, agent_id, <<7, 10>>),
                         !.threat_scores = DictPut(@, agent_id, Zero)],
         payload |-> UebaPayload("success", Zero, baseline.sample_count, "")]

\* "word in event_type.lower()" for the event types of the model
Contains(event_type, word) ==
    <<event_type, word>> \in {<<"high_anomaly_detected", "high">>,
                              <<"critical_breach", "critical">>,
                              <<"medium_load", "medium">>}

\* _determine_threat_level
DetermineThreatLevel(event_type, threat_score) ==
    IF Contains(event_type, "critical") \/ RatLess(<<9, 10>>, threat_score) THEN "critical"
    ELSE IF Contains(event_type, "high") \/ RatLess(<<7, 10>>, threat_score) THEN "high"
    ELSE IF Contains(event_type, "medium") \/ RatLess(<<4, 10>>, threat_score) THEN "medium"
    ELSE "low"

\* _log_security_event; event_type "" is an event_data without event_type,
\* and an event_data without threat_score has the score 0.0
LogSecurityEvent(mon, agent_id, event_type, threat_score) ==
    LET threat_level == DetermineThreatLevel(event_type, threat_score)
        attention == threat_level \in {"high", "critical"}
        security_event == [agent_id |-> agent_id, event_type |-> event_type,
                           threat_score |-> threat_score,
                           threat_level |-> threat_level,
                           requires_attention |-> attention]
        alert == [alert_id |-> <<"alert", Len(mon.security_alerts) + 1>>,
                  agent_id |-> agent_id, threat_level |-> threat_level,
                  description |-> IF event_type = "" THEN "Unknown security event"
                                  ELSE event_type,
                  status |-> "active"]
    IN  [monitor |->
             [mon EXCEPT !.security_alerts = IF attention THEN Append(@, alert) ELSE @,
                         !.security_events = Append(@, security_event),
                         !.last_analysis_time = @ \cup {agent_id}],
         payload |-> UebaPayload("success", Zero, Len(mon.security_events) + 1,
                                 threat_level)]

\* the deviations of the anomalies _detect_anomaly finds, in their order
Deviations(baseline, current_behavior, threshold) ==
    LET Deviation(it) ==
            RatDiv(RatAbs(RatSub(it.value, baseline.metrics[it.metric])),
                   baseline.metrics[it.metric])
        IsAnomaly(it) ==
            /\ it.numeric
            /\ it.metric \in DOMAIN baseline.metrics
            /\ RatLess(Zero, baseline.metrics[it.metric])
            /\ RatLess(threshold, Deviation(it))
        anomalies == SelectSeq(current_behavior, IsAnomaly)
    IN  [i \in DOMAIN anomalies |-> Deviation(anomalies[i])]

RECURSIVE RatSum(_)
RatSum(xs) == IF xs = <<>> THEN Zero ELSE RatAdd(xs[1], RatSum(Tail(xs)))

\* min(total_anomaly_score / len(anomalies), 1.0)
NewThreatScore(deviations) ==
    RatMin(RatDiv(RatSum(deviations), <<Len(deviations), 1>>), One)

\* mutant: the new score replaces the old one
DetectAnomalyOverwriting(mon, agent_id, current_behavior, threshold) ==
    IF agent_id \notin DOMAIN mon.agent_baselines
    THEN [monitor |-> mon, payload |-> UebaPayload("error", Zero, 0, "")]
    ELSE LET deviations == Deviations(mon.agent_baselines[agent_id], current_behavior,
                                      threshold)
             new_threat_score == NewThreatScore(deviations)
             scored == [mon EXCEPT !.threat_scores =
                                       DictPut(@, agent_id, new_threat_score)]
             after == IF deviations = <<>> THEN mon
                      ELSE IF RatLess(<<8, 10>>, new_threat_score)
                      THEN LogSecurityEvent(scored, agent_id, "high_anomaly_detected",
                                            new_threat_score).monitor
                      ELSE scored
         IN  [monitor |-> after,
              payload |-> UebaPayload("success",
                                      DictGet(after.threat_scores, agent_id, Zero),
                                      Len(deviations), "")]

\* _detect_anomaly: the monitor after the call, and its payload
DetectAnomaly(mon, agent_id, current_behavior, threshold) ==
    IF agent_id \notin DOMAIN mon.agent_baselines
    THEN [monitor |-> mon, payload |-> UebaPayload("error", Zero, 0, "")]
    ELSE LET deviations == Deviations(mon.agent_baselines[agent_id], current_behavior,
                                      threshold)
             new_threat_score == NewThreatScore(deviations)
             scored == [mon EXCEPT !.threat_scores =
                                       DictPut(@, agent_id,
                                               RatMax(DictGet(@, agent_id, Zero),
                                                      new_threat_score))]
             after == IF deviations = <<>> THEN mon
                      ELSE IF RatLess(<<8, 10>>, new_threat_score)
                      THEN LogSecurityEvent(scored, agent_id, "high_anomaly_detected",
                                            new_threat_score).monitor
                      ELSE scored
         IN  [monitor |-> after,
              payload |-> UebaPayload("success",
                                      DictGet(after.threat_scores, agent_id, Zero),
                                      Len(deviations), "")]

\* _get_risk_level
GetRiskLevel(threat_score) ==
    IF ~RatLess(threat_score, <<8, 10>>) THEN "critical"
    ELSE IF ~RatLess(threat_score, <<6, 10>>) THEN "high"
    ELSE IF ~RatLess(threat_score, <<3, 10>>) THEN "medium"
    ELSE "low"

\* _get_threat_score: its payload, with the count of the agent's events
GetThreatScore(mon, agent_id) ==
    LET threat_score == DictGet(mon.threat_scores, agent_id, Zero) IN
    UebaPayload("success", threat_score,
                Cardinality({i \in DOMAIN mon.security_events :
                                mon.security_events[i].agent_id = agent_id}),
                GetRiskLevel(threat_score))

\* the monitor as the variables hold it
MonitorNow ==
    Monitor(agent_baselines, threat_scores, anomaly_thresholds, security_events,
            security_alerts, last_analysis_time)

UebaCall(action, agent_id, event_data, threshold) ==
    [action |-> action, agent_id |-> agent_id, event_data |-> event_data,
     threshold |-> threshold]

UebaInit ==
    /\ agent_baselines = EmptyDict
    /\ threat_scores = EmptyDict
    /\ anomaly_thresholds = EmptyDict
    /\ security_events = <<>>
    /\ security_alerts = <<>>
    /\ last_analysis_time = {}
    /\ ueba_call = UebaCall("none", "", <<>>, Zero)
    /\ ueba_result = UebaPayload("absent", Zero, 0, "")
    /\ ueba_before = Monitor(EmptyDict, EmptyDict, EmptyDict, <<>>, <<>>, {})

\* how many samples the baselines are given in all and how many events are
\* logged
MaxSamples == 2
MaxEvents == 1

\* the samples the baselines were given
Samples(baselines) ==
    LET RECURSIVE Sum(_)
        Sum(as) == IF as = {} THEN 0
                   ELSE LET a == CHOOSE x \in as : TRUE
                        IN  baselines[a].sample_count + Sum(as \ {a})
    IN  Sum(DOMAIN baselines)

Agents == {"planner", "scheduler"}

\* error_rate 0.1 and activity_frequency 5, with a role; error_rate 0.3
BaselineData ==
    {<<Item("error_rate", <<1, 10>>), Item("activity_frequency", <<5, 1>>),
       TextItem("role", "planner")>>,
     <<Item("error_rate", <<3, 10>>)>>}

\* against a baseline error_rate of 0.1 and activity_frequency of 5: no
\* deviation, 0.75, 0.8, and 2.0 with 3.0
CurrentBehaviors ==
    {<<Item("error_rate", <<1, 10>>)>>,
     <<Item("error_rate", <<175, 1000>>)>>,
     <<Item("error_rate", <<18, 100>>), TextItem("latency", "slow")>>,
     <<Item("error_rate", <<3, 10>>), Item("activity_frequency", <<20, 1>>)>>}

\* the default threshold
Thresholds == {<<7, 10>>}

\* the (event_type, threat_score) of the event_data given to log_event
LoggedEvents == {<<"", Zero>>, <<"login", <<3, 4>>>>}

\* the variables after a call that left the monitor as x.monitor
UebaReturns(call, x) ==
    /\ ueba_call' = call
    /\ ueba_before' = MonitorNow
    /\ agent_baselines' = x.monitor.agent_baselines
    /\ threat_scores' = x.monitor.threat_scores
    /\ anomaly_thresholds' = x.monitor.anomaly_thresholds
    /\ security_events' = x.monitor.security_events
    /\ security_alerts' = x.monitor.security_alerts
    /\ last_analysis_time' = x.monitor.last_analysis_time
    /\ ueba_result' = x.payload
    /\ UNCHANGED notUeba

\* _run(action="establish_baseline", agent_id=..., event_data=...)
RunEstablishBaseline ==
    \E agent_id \in Agents, event_data \in BaselineData :
        /\ Samples(agent_baselines) < MaxSamples
        /\ UebaReturns(UebaCall("establish_baseline", agent_id, event_data, <<7, 10>>),
                       EstablishBaseline(MonitorNow, agent_id, event_data))

\* _run(action="detect_anomaly", agent_id=..., event_data=..., threshold=...)
RunDetectAnomaly ==
    \E agent_id \in Agents, event_data \in CurrentBehaviors, threshold \in Thresholds :
        \E x \in {DetectAnomaly(MonitorNow, agent_id, event_data, threshold)} :
            /\ Len(x.monitor.security_events) <= MaxEvents
            /\ UebaReturns(UebaCall("detect_anomaly", agent_id, event_data, threshold), x)

\* _run(action="log_event", agent_id=..., event_data=...)
RunLogEvent ==
    \E agent_id \in Agents, e \in LoggedEvents :
        /\ Len(security_events) < MaxEvents
        /\ UebaReturns(UebaCall("log_event", agent_id,
                                <<TextItem("event_type", e[1]),
                                  Item("threat_score", e[2])>>, <<7, 10>>),
                       LogSecurityEvent(MonitorNow, agent_id, e[1], e[2]))

\* _run(action="get_threat_score", agent_id=...)
RunGetThreatScore ==
    \E agent_id \in Agents :
        UebaReturns(UebaCall("get_threat_score", agent_id, <<>>, <<7, 10>>),
                    [monitor |-> MonitorNow,
                     payload |-> GetThreatScore(MonitorNow, agent_id)])

UebaNext ==
    \/ RunEstablishBaseline
    \/ RunDetectAnomaly
    \/ RunLogEvent
    \/ RunGetThreatScore

----------------------------------------------------------------------------
(* The specifications: every tool starts as constructed                    *)

Init ==
    /\ SCInit /\ CNInit /\ VTInit /\ MHInit(AnyVehicle) /\ DashInit /\ ThInit
    /\ ItInit /\ UebaInit
    /\ SRInit({<<0, 0>>})

\* the usage pattern and climate of _predict_failures' vehicle are drawn
InitMH ==
    /\ SCInit /\ CNInit /\ VTInit /\ MHInit(Vehicles) /\ DashInit /\ ThInit
    /\ ItInit /\ UebaInit
    /\ SRInit({<<0, 0>>})

\* the generator is started with a drawn seed
InitSR ==
    /\ SCInit /\ CNInit /\ VTInit /\ MHInit(AnyVehicle) /\ DashInit /\ ThInit
    /\ ItInit /\ UebaInit
    /\ SRInit(StartSeeds)

SpecSC == Init /\ [][SCNext]_vars

SpecSCFields == Init /\ [][SCFieldsNext]_vars

SpecCN == Init /\ [][CNNext]_vars

SpecCNChannels == Init /\ [][CNChannelsNext]_vars

SpecVT == Init /\ [][VTNext]_vars

SpecVTFleet == Init /\ [][VTFleetNext]_vars

SpecMH == InitMH /\ [][MHNext]_vars

SpecMHRun == Init /\ [][MHRunNext]_vars

SpecDash == Init /\ [][DashNext]_vars

SpecThreads == Init /\ [][ThNext]_vars

SpecSR == InitSR /\ [][SRNext]_vars

SpecIternio == Init /\ [][ItNext]_vars

SpecUeba == Init /\ [][UebaNext]_vars

----------------------------------------------------------------------------
(* ServiceCenterAPI: properties                                            *)

Booked(appts, c, d) == Cardinality(AppointmentsOnDate(appts, c, d))

\* centre c holds as many appointments on date d as its capacity
AtCapacity(appts, c, d) ==
    c \in DOMAIN service_centers /\ Booked(appts, c, d) = service_centers[c].capacity

BookCall(r) == Call("book_appointment", r, NoId)
IsCancelCall == sc_call.action = "cancel_appointment"

\* what _check_availability returned for r when the last call began
CheckBefore(r) ==
    CheckAvailability(service_centers, sc_before.appointments, r.c, r.date, r.time,
                      r.service_type)

SlotsReported(appts, apt) ==
    LET a == CheckAvailability(service_centers, appts, apt.service_center_id,
                               apt.date, apt.time, apt.service_type)
    IN  IF a.available THEN a.capacity_remaining ELSE 0

\* C2: after a confirmed appointment for centre c on date d is cancelled,
\* check_availability for c and d reports one more free slot than before the
\* cancellation; a centre that was fully booked is available again.
C2_CancelFreesSlot ==
    (IsCancelCall /\ sc_result.ok = "true")
    => LET apt == appointments[sc_call.appointment_id]
       IN  SlotsReported(appointments, apt)
             = SlotsReported(sc_before.appointments, apt) + 1

\* C3: cancel_appointment on an appointment that is already cancelled returns
\* success=false and changes neither the record nor the rest of the store; a
\* cancellation succeeds only on an appointment that was not cancelled before.
C3_SecondCancelFails ==
    /\ \A id \in DOMAIN appointments :
          appointments[id].status = "cancelled" =>
              LET x == CancelAppointment(appointments, sc_clock, id)
              IN  ~x.success /\ x.appointments = appointments
    /\ ( /\ IsCancelCall
         /\ sc_call.appointment_id \in DOMAIN sc_before.appointments
         /\ sc_before.appointments[sc_call.appointment_id].status = "cancelled" )
       => /\ sc_result.ok = "false"
          /\ AppointmentsDb = sc_before
    /\ (IsCancelCall /\ sc_result.ok = "true")
       => /\ sc_before.appointments[sc_call.appointment_id].status = "confirmed"
          /\ appointments[sc_call.appointment_id].status = "cancelled"

C3_Witness ==
    /\ IsCancelCall
    /\ sc_result.ok = "false"
    /\ sc_result.error = "already_cancelled"
    /\ sc_before.appointments[sc_call.appointment_id].status = "cancelled"

\* C4: each successful booking returns an ID APP<n> with n above the n of every
\* ID issued before it, starting at 1000; no two stored appointments share an ID
\* and no booking overwrites an earlier record.
C4_IdsStrictlyIncrease ==
    /\ \A i \in DOMAIN sc_issued :
          /\ sc_issued[i][1] = "APP"
          /\ sc_issued[i][2] >= 1000
          /\ \A j \in DOMAIN sc_issued : i < j => sc_issued[i][2] < sc_issued[j][2]
    /\ (sc_issued # <<>> => sc_issued[1] = AppointmentId(1000))
    /\ DOMAIN appointments = {sc_issued[i] : i \in DOMAIN sc_issued}
    /\ Cardinality(DOMAIN appointments) = Len(sc_issued)
    /\ \A id \in DOMAIN appointments : appointments[id].id = id
    /\ \A id \in DOMAIN sc_before.appointments :
          /\ id \in DOMAIN appointments
          /\ appointments[id].created_at = sc_before.appointments[id].created_at

C4_Witness ==
    /\ Len(sc_issued) >= 3
    /\ \E r \in Requests : sc_call = BookCall(r)
    /\ sc_result.ok = "true"
    /\ sc_result.appointment_id = sc_issued[Len(sc_issued)]

Statuses == {"confirmed", "cancelled"}

\* C5: every stored appointment has status confirmed or cancelled; an
\* appointment is created confirmed; a cancelled one stays cancelled under
\* every later operation.
C5_StatusLifecycle ==
    /\ \A id \in DOMAIN appointments : appointments[id].status \in Statuses
    /\ \A id \in (DOMAIN appointments) \ (DOMAIN sc_before.appointments) :
          appointments[id].status = "confirmed"
    /\ \A id \in DOMAIN sc_before.appointments :
          sc_before.appointments[id].status = "cancelled" =>
              /\ id \in DOMAIN appointments
              /\ appointments[id].status = "cancelled"

\* a cancelled appointment, and an appointment booked after the cancellation
C5_Witness ==
    \E id, later \in DOMAIN appointments :
        /\ appointments[id].status = "cancelled"
        /\ appointments[later].status = "confirmed"
        /\ appointments[later].created_at > appointments[id].cancelled_at[1]

\* C6: a stored appointment record changes only in a successful
\* cancel_appointment on its own ID; every other call leaves every stored
\* record as it was.
C6_RecordsChangeOnlyByOwnCancel ==
    \A id \in DOMAIN sc_before.appointments :
        /\ id \in DOMAIN appointments
        /\ appointments[id] # sc_before.appointments[id]
           => /\ IsCancelCall
              /\ sc_result.ok = "true"
              /\ sc_call.appointment_id = id

\* a successful cancellation that left the other stored appointments alone
C6_Witness ==
    /\ IsCancelCall
    /\ sc_result.ok = "true"
    /\ \E id \in DOMAIN appointments :
          id # sc_call.appointment_id /\ appointments[id].status = "confirmed"

\* C7: book_appointment succeeds exactly when check_availability with the same
\* centre, date, time and service type returns available=true in that state;
\* when it fails it reports the error of check_availability and stores nothing.
C7_BookingRevalidates ==
    \A r \in CompleteRequests :
        sc_call = BookCall(r) =>
            /\ sc_result.ok = Flag(CheckBefore(r).available)
            /\ sc_result.error = CheckBefore(r).error
            /\ sc_result.ok = "false" => AppointmentsDb = sc_before
            /\ sc_result.ok = "true" =>
                  (DOMAIN appointments) \ (DOMAIN sc_before.appointments)
                      = {sc_result.appointment_id}

\* a booking refused for a reason other than capacity, with appointments stored
C7_Witness ==
    /\ \E r \in Requests : sc_call = BookCall(r)
    /\ sc_result.ok = "false"
    /\ sc_result.error = "outside_hours"
    /\ appointments # EmptyDict


----------------------------------------------------------------------------
(* CustomerNotificationAPI: properties                                     *)

IsStatusUpdate == cn_call.action = "update_notification_status"

\* the last call named a notification that was in the history when it began
NamesStoredNotification ==
    \E i \in DOMAIN cn_before.notification_history :
        cn_before.heap[cn_before.notification_history[i]].notification_id
            = cn_call.notification_id

\* C8: whatever is sent and updated, every notification in the history has a
\* status among pending, sent, delivered, failed and read; an update to a
\* status outside these returns success false and leaves every notification
\* as it was.
C8_StatusesStayValid ==
    /\ \A i \in DOMAIN notification_history :
           cn_heap[notification_history[i]].status \in ValidStatuses
    /\ \A c \in DOMAIN customer_db :
           \A i \in DOMAIN customer_db[c].notification_history :
               cn_heap[customer_db[c].notification_history[i]].status \in ValidStatuses
    /\ (IsStatusUpdate /\ cn_call.status \notin ValidStatuses)
           => /\ cn_result.success = FALSE
              /\ NotificationState = cn_before

\* an update to "bounced" of a stored notification was refused, after an
\* update had moved a notification to "failed"
C8_Witness ==
    /\ IsStatusUpdate
    /\ cn_call.status = "bounced"
    /\ NamesStoredNotification
    /\ \E i \in DOMAIN notification_history :
           cn_heap[notification_history[i]].status = "failed"

----------------------------------------------------------------------------
(* VehicleTelematicsAPI: properties                                        *)

\* telematics_data without the two fields that are read off the clock
WithoutClock(data) ==
    [data EXCEPT !.timestamp = 0, !.maintenance_info.last_service_date = 0]

\* C9: a call returns, for its vehicle ID, what the first call for that ID
\* returned in every field but timestamp and last_service_date, whatever
\* the clock shows and whichever calls came in between.
C9_SameVehicleSameData ==
    vt_returned = "json_data"
        => /\ vt_call \in DOMAIN vt_first
           /\ WithoutClock(vt_result) = WithoutClock(vt_first[vt_call])

\* a vehicle with alerts is read again on a later day, after calls for every
\* other vehicle, and both clock-fed fields differ from its first reading
C9_Witness ==
    /\ vt_returned = "json_data"
    /\ DOMAIN vt_first = DOMAIN VehicleIds
    /\ vt_result.alerts # <<>>
    /\ vt_result.timestamp > vt_first[vt_call].timestamp
    /\ vt_result.maintenance_info.last_service_date
           > vt_first[vt_call].maintenance_info.last_service_date

----------------------------------------------------------------------------
(* MaintenanceHistoryAPI._predict_failures: properties                     *)

BothPredicted == mh_prev.predictions # <<>> /\ mh_last.predictions # <<>>

\* the failure_probability a call predicted for the component
ProbabilityOf(call, name) ==
    LET i == CHOOSE i \in DOMAIN call.predictions :
                 call.predictions[i].component = name
    IN  call.predictions[i].failure_probability

ComponentNames == {Components[i].name : i \in DOMAIN Components}

\* C10: of two predictions for the same usage pattern and climate, the one
\* with at least the mileage and at least the age of the other gives every
\* component at least the other's failure probability.
C10_ProbabilityMonotone ==
    (/\ BothPredicted
     /\ mh_prev.vehicle_data.usage_pattern = mh_last.vehicle_data.usage_pattern
     /\ mh_prev.vehicle_data.climate = mh_last.vehicle_data.climate
     /\ mh_prev.vehicle_data.mileage <= mh_last.vehicle_data.mileage
     /\ mh_prev.vehicle_age <= mh_last.vehicle_age)
        => \A name \in ComponentNames :
               ProbabilityOf(mh_prev, name) <= ProbabilityOf(mh_last, name)

\* mileage and age both grew between two predictions: the Brake Pads stay at
\* the cap, the Alternator comes off a halfway value and the Battery rises
C10_Witness ==
    /\ BothPredicted
    /\ mh_prev.vehicle_data.mileage = 1700
    /\ mh_last.vehicle_data.mileage = 200000
    /\ mh_prev.vehicle_age < mh_last.vehicle_age
    /\ ProbabilityOf(mh_prev, "Alternator") = 88
    /\ ProbabilityOf(mh_last, "Brake Pads") = 950
    /\ ProbabilityOf(mh_prev, "Battery") < ProbabilityOf(mh_last, "Battery")

\* the sum of the component's terms in a call, before the cap
SumOf(call, name) ==
    LET i == CHOOSE i \in DOMAIN Components : Components[i].name = name
    IN  SummedTerms(Components[i], call.vehicle_age, call.vehicle_data)

\* C11: no reported failure_probability exceeds 0.95, and a component whose
\* base rate plus age, mileage, usage and climate terms is 0.95 or more is
\* reported at 0.95.
C11_ProbabilityCapped ==
    mh_last.predictions # <<>>
        => \A name \in ComponentNames :
               /\ ProbabilityOf(mh_last, name) <= 950
               /\ SumOf(mh_last, name) >= ProbabilityCap
                      => ProbabilityOf(mh_last, name) = 950

\* one call in which the Brake Pads sum to 0.95 exactly, followed by one in
\* which they and the Alternator sum to more than 1 while the Starter Motor
\* stays below the cap
C11_Witness ==
    /\ BothPredicted
    /\ SumOf(mh_prev, "Brake Pads") = ProbabilityCap
    /\ SumOf(mh_last, "Brake Pads") > 1000000
    /\ SumOf(mh_last, "Alternator") > 1000000
    /\ ProbabilityOf(mh_last, "Alternator") = 950
    /\ ProbabilityOf(mh_last, "Starter Motor") < 950

----------------------------------------------------------------------------
(* The tools' _run: what comes back when a step fails                      *)

\* C12: _run raises nothing and returns a JSON object, which carries an
\* error field when a step of the call failed.  (VehicleTelematicsAPI: the
\* return is json.dumps of the data, or of an error object when
\* int(vehicle_id[-3:]) raises.)
C12_FailureReturnsJsonError ==
    vt_call # ""
        => /\ vt_returned \in {"json_data", "json_error"}
           /\ IntRaises(vt_call) => vt_returned = "json_error"

----------------------------------------------------------------------------
(* ServiceCenterAPI: required arguments                                    *)

\* the last call lacked an argument its action requires
LacksRequired ==
    \/ /\ sc_call.action = "check_availability"
       /\ \/ sc_call.c = ""
          \/ sc_call.date = <<>>
          \/ sc_call.time = <<>>
          \/ sc_call.service_type = ""
    \/ /\ sc_call.action = "book_appointment"
       /\ \/ sc_call.c = ""
          \/ sc_call.date = <<>>
          \/ sc_call.time = <<>>
          \/ sc_call.service_type = ""
          \/ sc_call.name = ""
          \/ sc_call.phone = ""
    \/ /\ sc_call.action = "cancel_appointment"
       /\ sc_call.appointment_id = NoId

\* C13: check_availability, book_appointment and cancel_appointment called
\* without one of their required arguments return an error payload and leave
\* the appointments and next_appointment_id as they were.
C13_MissingFieldRejected ==
    LacksRequired
        => /\ sc_result.error = "missing_parameters"
           /\ sc_result.ok = "absent"
           /\ sc_result.appointment_id = NoId
           /\ AppointmentsDb = sc_before

\* with appointments stored, one of them cancelled, a booking that lacks
\* only the customer's phone is refused
C13_Witness ==
    /\ sc_call.action = "book_appointment"
    /\ sc_call.phone = ""
    /\ sc_call.name # "" /\ sc_call.c # "" /\ sc_call.service_type # ""
    /\ sc_call.date # <<>> /\ sc_call.time # <<>>
    /\ sc_result.error = "missing_parameters"
    /\ Cardinality(DOMAIN appointments) >= 2
    /\ \E id \in DOMAIN appointments : appointments[id].status = "cancelled"

----------------------------------------------------------------------------
(* MaintenanceHistoryAPI._run: the vehicle ID                              *)

\* the ID is "VEH" followed by one or more digits (digits as str.isdigit()
\* knows them, the superscript two among them)
HasIdForm(vehicle_id) ==
    /\ Len(vehicle_id) >= 4
    /\ vehicle_id[1] = "V" /\ vehicle_id[2] = "E" /\ vehicle_id[3] = "H"
    /\ \A i \in 4..Len(vehicle_id) : vehicle_id[i] \in DecimalDigits \cup OtherDigits

\* the vehicle whose data a well-formed ID is served with
ServedAs(vehicle_id) ==
    IF \E i \in Fleet : FleetId(i) = vehicle_id
    THEN CHOOSE i \in Fleet : FleetId(i) = vehicle_id
    ELSE 1

\* C14: _run answers with the ID-format error, status error, whatever the
\* action_type, exactly when the vehicle_id is not "VEH" followed by one or
\* more digits; an ID of that form is served by every action_type the tool
\* knows, with its own vehicle's data when it is VEH001..VEH010 and with
\* the data of VEH001 otherwise.
C14_IdFormatValidation ==
    mh_request.action_type # "none"
        => /\ mh_response.error = "invalid_vehicle_id" <=> ~HasIdForm(mh_request.vehicle_id)
           /\ mh_response.error = "invalid_vehicle_id" => mh_response.status = "error"
           /\ (HasIdForm(mh_request.vehicle_id) /\ mh_request.action_type \in ActionTypes)
                  => /\ mh_response.status # "error"
                     /\ \E drawn \in (0 - 2000)..8000 :
                            mh_response.vehicle_data
                                = FleetVehicle(ServedAs(mh_request.vehicle_id), drawn)

\* VEH011 asked for its failure predictions: they are those of a 2021 Honda
C14_Witness ==
    /\ mh_request = MaintRequest(FleetId(11), "predict_failures")
    /\ mh_response.vehicle_data.make = "Honda"
    /\ mh_response.vehicle_data.year = 2021
    /\ mh_response.vehicle_data.mileage = 28000
    /\ Len(mh_response.predictions) = 7

----------------------------------------------------------------------------
(* ServiceCenterAPI: the directory of service centres                      *)

CentreIds == {"mumbai", "delhi", "bangalore", "chennai", "hyderabad"}

\* C15: in every reachable state the directory holds exactly the five
\* centres mumbai, delhi, bangalore, chennai and hyderabad, each with the
\* working hours, services and capacity it was initialised with: no booking,
\* cancellation, lookup or unknown action adds, removes or changes a centre.
C15_DirectoryIsFixed ==
    /\ DOMAIN service_centers = CentreIds
    /\ \A c \in CentreIds :
          /\ service_centers[c].id = c
          /\ service_centers[c].working_hours = InitialServiceCenters[c].working_hours
          /\ service_centers[c].services = InitialServiceCenters[c].services
          /\ service_centers[c].capacity = InitialServiceCenters[c].capacity

\* a booking at chennai was stored, then cancelled: chennai still has its
\* twelve slots a day
C15_Witness ==
    /\ sc_call.action = "cancel_appointment"
    /\ sc_result.ok = "true"
    /\ Len(sc_issued) >= 1
    /\ service_centers["chennai"].capacity = 12
    /\ Cardinality(DOMAIN service_centers) = 5

----------------------------------------------------------------------------
(* CustomerNotificationAPI: the customer directory and refused sends       *)

CustomerIds ==
    {"VEH001", "VEH002", "VEH003", "VEH004", "VEH005", "VEH006", "VEH007", "VEH008",
     "VEH009", "VEH010"}

\* the last call was a send_notification that reached _send_notification
\* (its three required arguments given, its channel one of the three) for a
\* customer who was unknown or had the channel disabled when it began
IsRefusedSend ==
    /\ cn_call.action = "send_notification"
    /\ cn_call.customer_id # "" /\ cn_call.message # ""
    /\ cn_call.notification_type \in {"email", "sms", "app_push"}
    /\ \/ cn_call.customer_id \notin DOMAIN cn_before.customer_db
       \/ ~cn_before.customer_db[cn_call.customer_id]
               .preferences[cn_call.notification_type]

\* C16: the customer directory holds exactly VEH001..VEH010 and every
\* customer's channel preferences are those it was initialised with; a
\* send_notification to an unknown customer, or over a channel the customer
\* has disabled, returns success false with no notification_id and leaves
\* the global history and every customer's history as they were.
C16_DirectoryFixedAndRefusedSendsStoreNothing ==
    /\ DOMAIN customer_db = CustomerIds
    /\ \A c \in CustomerIds :
           customer_db[c].preferences = InitialCustomerDb[c].preferences
    /\ IsRefusedSend
           => /\ cn_result.success = FALSE
              /\ cn_result.notification_id = NoNotificationId
              /\ notification_history = cn_before.notification_history
              /\ \A c \in CustomerIds :
                     customer_db[c].notification_history
                         = cn_before.customer_db[c].notification_history
              /\ cn_heap = cn_before.heap

\* an app_push to VEH004, who has app_push disabled, was refused after an
\* e-mail to VEH004 had been stored
C16_Witness ==
    /\ IsRefusedSend
    /\ cn_call.customer_id = "VEH004"
    /\ cn_call.notification_type = "app_push"
    /\ cn_result.error = "channel_disabled"
    /\ Len(customer_db["VEH004"].notification_history) = 1
    /\ Len(notification_history) = 1

\* each kind of refusal happens: an e-mail (VEH003), an SMS (VEH009) over a
\* disabled channel, and a send to the unknown customer VEH011
C16_EmailRefused ==
    IsRefusedSend /\ cn_call.customer_id = "VEH003" /\ cn_call.notification_type = "email"

C16_SmsRefused ==
    IsRefusedSend /\ cn_call.customer_id = "VEH009" /\ cn_call.notification_type = "sms"

C16_UnknownRefused ==
    IsRefusedSend /\ cn_call.customer_id = "VEH011" /\ cn_result.error = "customer_not_found"

----------------------------------------------------------------------------
(* The dashboard backend: properties                                       *)

\* the file held a non-empty report when the endpoint was asked
HeldReport(file) == file.kind = "json" /\ file.value.members # {}

\* C17: when GET /api/dashboard finds no report file it does not fail: it
\* answers with status 503 and a placeholder payload of report_text and
\* timestamp; when the file holds a non-empty report it answers with that
\* report.
C17_MissingFileGivesPlaceholder ==
    dash_response.asked
        => /\ dash_response.file = NoFile
                  => /\ dash_response.response.status = 503
                     /\ dash_response.response.body
                            = Json("object", {<<"report_text", PlaceholderText>>,
                                              <<"timestamp", dash_response.now>>})
           /\ HeldReport(dash_response.file)
                  => /\ dash_response.response.status = 200
                     /\ dash_response.response.body = dash_response.file.value

\* the endpoint was asked at instant 2, when there was no report file
C17_Witness ==
    /\ dash_response.asked
    /\ dash_response.file = NoFile
    /\ dash_response.now = 2
    /\ dash_response.response.status = 503
    /\ report_file = NoFile

\* the endpoint returned the report main.py wrote
C17_ReportReturned ==
    /\ dash_response.asked
    /\ dash_response.response.status = 200
    /\ <<"title", "Automotive Maintenance Report">>
           \in dash_response.response.body.members

----------------------------------------------------------------------------
(* ServiceCenterAPI: two concurrent callers of book_appointment            *)

OverCapacity ==
    Cardinality(AppointmentsOnDate(appointments, MainRequest.c, MainRequest.date))
        > service_centers[MainRequest.c].capacity

\* C18: book_appointment checks and stores in separate steps and takes no
\* lock: the appointments of a centre and date exceed its capacity only
\* after a caller made its availability check while another caller was
\* between its check and its store, and after such an interleaving they do
\* exceed it (C18_Witness); callers that never overlap stay within capacity.
C18_OverCapacityOnlyByInterleaving == OverCapacity => th_overlaps > 0

\* both callers passed the check with one slot left and both stored: chennai
\* has thirteen appointments on a day with twelve slots
C18_Witness ==
    /\ OverCapacity
    /\ \A t \in Callers : th_pc[t] = "idle"
    /\ Cardinality(DOMAIN appointments) = 13
    /\ th_overlaps = 1

----------------------------------------------------------------------------
(* VehicleTelematicsAPI: the generator and _seeded_random                  *)

\* the seed is in 0..2^31-1
InSeedRange(seed) == seed[1] \in 0..32767 /\ seed[2] \in 0..65535

\* min_val <= v and v <= max_val for the value returned, the float error left out
ExactlyWithin(value, range) ==
    /\ value.units >= range.lo /\ value.rest >= 0
    /\ value.units < range.hi \/ (value.units = range.hi /\ value.rest = 0)

C19_AtMaxVal ==
    /\ sr_call.called
    /\ sr_call.seed = <<3517, 47902>>
    /\ sr_call.range = Range(0, 15000, 1)
    /\ sr_value.units = 15000 /\ sr_value.rest = 0 /\ ~sr_value.above

----------------------------------------------------------------------------
(* VehicleTelematicsAPI: the even/odd rule                                 *)

\* the warning level the rule gives vehicle number n of 1..10
RuleLevel(n) ==
    CASE n \in {4, 8} -> "high"
      [] n \in {2, 6, 10} -> "medium"
      [] n \in {3, 7} -> "low"
      [] n \in {1, 5, 9} -> "none"

\* C20: for an ID whose last three digits are a number of 1..10,
\* maintenance_due is true exactly for 2, 4, 6, 8 and 10, warning_level is
\* high for 4 and 8, medium for 2, 6 and 10, low for 3 and 7 and none for
\* 1, 5 and 9, and diagnostic_codes is non-empty exactly when warning_level
\* is not none.
C20_EvenOddRule ==
    (vt_returned = "json_data" /\ VehicleNum(vt_call) \in 1..10)
        => /\ vt_result.maintenance_info.maintenance_due
                  = (VehicleNum(vt_call) \in {2, 4, 6, 8, 10})
           /\ vt_result.maintenance_info.warning_level = RuleLevel(VehicleNum(vt_call))
           /\ vt_result.diagnostic_codes # <<>>
                  <=> vt_result.maintenance_info.warning_level # "none"

\* VEH008: maintenance due, warning level high, three diagnostic codes
C20_Witness ==
    /\ vt_returned = "json_data"
    /\ vt_call = "VEH008"
    /\ vt_result.maintenance_info.maintenance_due
    /\ vt_result.maintenance_info.warning_level = "high"
    /\ Len(vt_result.diagnostic_codes) = 3

\* VEH009: no maintenance due, no warning, no diagnostic code
C20_OddWithoutWarning ==
    /\ vt_returned = "json_data"
    /\ vt_call = "VEH009"
    /\ ~vt_result.maintenance_info.maintenance_due
    /\ vt_result.maintenance_info.warning_level = "none"
    /\ vt_result.diagnostic_codes = <<>>

----------------------------------------------------------------------------
(* MaintenanceHistoryAPI: two predict_failures calls for one vehicle ID    *)

\* the failure_probability and severity a payload reports for each component
Forecast(predictions) ==
    {<<predictions[i].component, predictions[i].failure_probability,
       predictions[i].severity>> : i \in DOMAIN predictions}

\* C21: two predict_failures calls of _run for the same vehicle ID in the
\* same calendar year return the same failure_probability and severity for
\* every component.
C21_SameIdSameForecast ==
    [][(/\ mh_request.action_type = "predict_failures"
        /\ mh_request'.action_type = "predict_failures"
        /\ mh_request'.vehicle_id = mh_request.vehicle_id
        /\ mh_year' = mh_year)
           => Forecast(mh_response'.predictions) = Forecast(mh_response.predictions)]_vars

----------------------------------------------------------------------------
(* ServiceCenterAPI: capacity and the appointment counter, one caller      *)

\* the date strings of the stored appointments
StoredDates == {appointments[k].date : k \in DOMAIN appointments}

C23_CounterCountsStore ==
    /\ next_appointment_id = 1000 + Cardinality(DOMAIN appointments)
    /\ DOMAIN sc_before.appointments \subseteq DOMAIN appointments
    /\ (sc_call.action = "book_appointment" /\ sc_result.ok # "true")
           => next_appointment_id = sc_before.next_appointment_id

\* thirteen appointments are stored, APP1011 was cancelled and is still
\* there, and the last booking failed: the counter stands at 1013
C23_Witness ==
    /\ next_appointment_id = 1013
    /\ AppointmentId(1011) \in DOMAIN appointments
    /\ appointments[AppointmentId(1011)].status = "cancelled"
    /\ sc_call.action = "book_appointment"
    /\ sc_result.ok = "false"
    /\ sc_before.next_appointment_id = 1013

----------------------------------------------------------------------------
(* ServiceCenterAPI: check_availability at the edges of its conditions     *)

\* chennai is open 09:00-18:00 on a Monday and 10:00-14:00 on a Sunday
AvailabilityRequests ==
    {MainRequest,
     [MainRequest EXCEPT !.time = <<9, 0>>], [MainRequest EXCEPT !.time = <<8, 59>>],
     [MainRequest EXCEPT !.time = <<18, 0>>], [MainRequest EXCEPT !.time = <<18, 1>>],
     [MainRequest EXCEPT !.time = <<24, 0>>],
     [MainRequest EXCEPT !.date = SUN, !.time = <<14, 0>>],
     [MainRequest EXCEPT !.date = SUN, !.time = <<14, 1>>],
     [MainRequest EXCEPT !.date = MON_UNPADDED],
     [MainRequest EXCEPT !.date = BAD_DATE],
     [MainRequest EXCEPT !.date = <<>>],
     [MainRequest EXCEPT !.c = "pune"],
     [MainRequest EXCEPT !.c = "mumbai", !.date = SUN],
     [MainRequest EXCEPT !.service_type = "hybrid_service"],
     [MainRequest EXCEPT !.c = "bangalore", !.service_type = "hybrid_service",
                         !.time = <<18, 30>>]}

\* check_availability for these requests, between bookings that fill chennai
SCAvailabilityNext ==
    \/ \E r \in AvailabilityRequests : CheckAvailabilityCall(r)
    \/ \E r \in {MainRequest} : BookAppointmentCall(r)

SpecSCAvailability == Init /\ [][SCAvailabilityNext]_vars

\* the conditions of C24 for request r against the store appts
MeetsConditions(appts, r) ==
    /\ r.c \in DOMAIN service_centers
    /\ r.service_type \in service_centers[r.c].services
    /\ DateParses(r.date)
    /\ TimeParses(r.time)
    /\ LET hours == service_centers[r.c].working_hours[DayName(r.date)] IN
           /\ hours # <<>>
           /\ TimeLeq(<<hours[1], hours[2]>>, r.time)
           /\ TimeLeq(r.time, <<hours[3], hours[4]>>)
    /\ Booked(appts, r.c, r.date) < service_centers[r.c].capacity

C24_AfterClosing ==
    /\ sc_call = Call("check_availability", [MainRequest EXCEPT !.time = <<18, 1>>], NoId)
    /\ sc_result.ok = "false"
    /\ sc_result.error = "outside_hours"

----------------------------------------------------------------------------
(* CustomerNotificationAPI: notification IDs and the two histories         *)

\* the positions of history whose notification has the ID
WithId(history, heap, id) ==
    {i \in DOMAIN history : heap[history[i]].notification_id = id}

IsSuccessfulSend == cn_call.action = "send_notification" /\ cn_result.success

\* C25: a successful send_notification returns a notification_id that no
\* notification already in the history has, also for a second send to the
\* same customer within the same clock second, so that an
\* update_notification_status by ID finds one notification with that ID.
C25_SendIdIsNew ==
    /\ IsSuccessfulSend
           => WithId(cn_before.notification_history, cn_before.heap,
                     cn_result.notification_id) = {}
    /\ (IsStatusUpdate /\ cn_result.success)
           => Cardinality(WithId(notification_history, cn_heap,
                                 cn_call.notification_id)) = 1

\* the notifications of the global history addressed to customer c
AddressedTo(history, heap, c) ==
    LET ToCustomer(ref) == heap[ref].customer_id = c
    IN  SelectSeq(history, ToCustomer)

\* C26: each customer's notification_history holds the notifications of
\* the global history addressed to that customer, in the same order (the
\* same dicts, so with the same status); it grows by one with each
\* successful send to the customer and with no other call, and
\* total_notifications of get_customer_preferences is its length.
C26_CustomerHistoryMirrorsGlobal ==
    /\ \A c \in DOMAIN customer_db :
           /\ customer_db[c].notification_history
                  = AddressedTo(notification_history, cn_heap, c)
           /\ Len(customer_db[c].notification_history)
                  = Len(cn_before.customer_db[c].notification_history)
                      + (IF IsSuccessfulSend /\ cn_call.customer_id = c THEN 1 ELSE 0)
    /\ (cn_call.action = "get_customer_preferences" /\ cn_result.success)
           => cn_result.total_notifications
                  = Len(AddressedTo(notification_history, cn_heap, cn_call.customer_id))

\* VEH001 was sent two notifications, the first was then marked delivered,
\* and get_customer_preferences counts two
C26_Witness ==
    /\ cn_call.action = "get_customer_preferences"
    /\ cn_call.customer_id = "VEH001"
    /\ cn_result.total_notifications = 2
    /\ notification_history = customer_db["VEH001"].notification_history
    /\ cn_heap[notification_history[1]].status = "delivered"
    /\ cn_heap[notification_history[2]].status = "sent"

\* one notification for each of two customers: each history holds its own
C26_TwoCustomers ==
    /\ Len(notification_history) = 2
    /\ Len(customer_db["VEH001"].notification_history) = 1
    /\ Len(customer_db["VEH002"].notification_history) = 1
    /\ cn_heap[customer_db["VEH002"].notification_history[1]].status = "failed"

----------------------------------------------------------------------------
(* VehicleTelematicsAPI: vehicles without warnings                         *)

\* _run for the fleet and the other IDs, beside _seeded_random on its own
\* for each seed of StartSeeds, two of which step to 0 and to 0x7fffffff
VTSeedsNext ==
    \/ RunTelematicsFleet
    \/ RunTelematicsRaising
    \/ CallSeededRandom

SpecVTSeeds == InitSR /\ [][VTSeedsNext]_vars

\* for the five readings that _generate_alerts tests: the range _run draws
\* the reading from, the base it adds for warning_level none and the
\* threshold of the alert, the last two in units of 1/per
AlertReadings ==
    {[range |-> Range(0 - 5, 10, 1), base |-> 40, threshold |-> 30],
     [range |-> Range(0 - 1, 2, 1), base |-> 8, threshold |-> 4],
     [range |-> Range(0 - 3, 4, 10), base |-> 126, threshold |-> 120],
     [range |-> Range(0 - 3, 3, 1), base |-> 32, threshold |-> 28],
     [range |-> Range(0 - 10, 15, 1), base |-> 85, threshold |-> 70]}

WarnedNumbers == {2, 3, 4, 6, 7, 8, 10}

\* C27: a vehicle whose number is not in {2, 3, 4, 6, 7, 8, 10} has
\* warning_level none, an empty alerts list and an empty diagnostic_codes
\* list: its oil pressure is at least 30, its brake pad thickness at least
\* 4, its battery voltage at least 12.0, every tire pressure at least 28
\* and its coolant level at least 70, and so is every value the generator
\* returns for these readings from any seed.
C27_NoWarningNoAlerts ==
    /\ (vt_returned = "json_data" /\ VehicleNum(vt_call) \notin WarnedNumbers)
           => /\ vt_result.maintenance_info.warning_level = "none"
              /\ vt_result.alerts = <<>>
              /\ vt_result.diagnostic_codes = <<>>
              /\ vt_result.engine_data.oil_pressure_psi >= 300
              /\ vt_result.brake_system.front_pad_thickness_mm >= 40
              /\ vt_result.electrical_system.battery_voltage >= 1200
              /\ vt_result.tire_pressure_psi.front_left >= 280
              /\ vt_result.tire_pressure_psi.front_right >= 280
              /\ vt_result.tire_pressure_psi.rear_left >= 280
              /\ vt_result.tire_pressure_psi.rear_right >= 280
              /\ vt_result.cooling_system.coolant_level_percent >= 700
    /\ \A reading \in AlertReadings :
           (sr_call.called /\ sr_call.range = reading.range)
               => reading.base + sr_value.units >= reading.threshold

\* VEH009 has no warning, no alert and no diagnostic code, while the
\* generator returned the least oil-pressure offset, -5, from the seed
\* 2088216195, which steps to 0
C27_Witness ==
    /\ vt_returned = "json_data"
    /\ vt_call = "VEH009"
    /\ vt_result.maintenance_info.warning_level = "none"
    /\ vt_result.alerts = <<>>
    /\ sr_call.called
    /\ sr_call.seed = <<31863, 42627>>
    /\ sr_call.range = Range(0 - 5, 10, 1)
    /\ sr_value.units = 0 - 5 /\ sr_value.rest = 0

\* VEH008 has alerts and diagnostic codes
C27_WarnedVehicleAlerts ==
    /\ vt_returned = "json_data"
    /\ vt_call = "VEH008"
    /\ Len(vt_result.alerts) >= 2
    /\ vt_result.diagnostic_codes # <<>>

----------------------------------------------------------------------------
(* IternioRouteOptimizer: properties                                       *)

IsGiven(x) == x # NoInt

\* C28: get_charging_time, for battery_level and target_level in 0..100
\* with battery_level < target_level and charging_power > 0, returns a
\* result without error whose energy_needed_kwh is
\* (target_level - battery_level) / 100 * 75; it returns an error exactly
\* when an argument is absent or battery_level >= target_level.
C28_ChargingTimeOrError ==
    it_call.action = "get_charging_time"
        => LET b == it_call.battery_level
               t == it_call.target_level
               p == it_call.charging_power
               absent == ~IsGiven(b) \/ ~IsGiven(t) \/ ~IsGiven(p)
           IN  /\ (~absent /\ b[1] < t[1] /\ p[1] > 0)
                      => /\ ~it_result.error
                         /\ it_result.energy_needed_kwh
                                = (t[1] - b[1]) * BatteryCapacityKwh
               /\ (absent \/ p[1] > 0)
                      => (it_result.error <=> (absent \/ b[1] >= t[1]))

----------------------------------------------------------------------------
(* UEBASecurityMonitor: properties                                         *)

\* 0 <= x <= 1
InUnitInterval(x) == ~RatLess(x, Zero) /\ ~RatLess(One, x)

IsDetectAnomaly == ueba_call.action = "detect_anomaly"

\* the deviations the last detect_anomaly found against the baseline the
\* agent had when the call began
FoundDeviations ==
    Deviations(ueba_before.agent_baselines[ueba_call.agent_id], ueba_call.event_data,
               ueba_call.threshold)

\* C29: every agent's threat score lies in [0, 1]; detect_anomaly lowers no
\* score and leaves the agent with the maximum of its old score and the new
\* one; detect_anomaly for an agent without a baseline changes nothing; a
\* score is lowered only by establish_baseline for that agent, which sets
\* it to 0.
C29_ThreatScoreBounds ==
    /\ \A a \in DOMAIN threat_scores : InUnitInterval(threat_scores[a])
    /\ \A a \in DOMAIN ueba_before.threat_scores :
           /\ a \in DOMAIN threat_scores
           /\ RatLess(threat_scores[a], ueba_before.threat_scores[a])
                  => /\ ueba_call.action = "establish_baseline"
                     /\ ueba_call.agent_id = a
                     /\ threat_scores[a] = Zero
    /\ ueba_call.action = "establish_baseline" => threat_scores[ueba_call.agent_id] = Zero
    /\ (IsDetectAnomaly /\ ueba_call.agent_id \notin DOMAIN ueba_before.agent_baselines)
           => /\ MonitorNow = ueba_before
              /\ ueba_result.status = "error"
    /\ (IsDetectAnomaly /\ ueba_call.agent_id \in DOMAIN ueba_before.agent_baselines)
           => /\ ueba_result.status = "success"
              /\ threat_scores[ueba_call.agent_id]
                     = IF FoundDeviations = <<>>
                       THEN ueba_before.threat_scores[ueba_call.agent_id]
                       ELSE RatMax(ueba_before.threat_scores[ueba_call.agent_id],
                                   NewThreatScore(FoundDeviations))

\* the planner had the score 0.8 and detect_anomaly found one anomaly with
\* the deviation 0.75: the score is still 0.8
C29_Witness ==
    /\ IsDetectAnomaly
    /\ ueba_call.agent_id = "planner"
    /\ "planner" \in DOMAIN ueba_before.agent_baselines
    /\ ueba_before.threat_scores["planner"] = <<4, 5>>
    /\ ueba_result.count = 1
    /\ FoundDeviations = <<(<<3, 4>>)>>
    /\ threat_scores["planner"] = <<4, 5>>

\* two deviations of 2.0 and 3.0 give the score 1.0 and a critical alert
C29_ScoreCappedAtOne ==
    /\ IsDetectAnomaly
    /\ ueba_call.agent_id \in DOMAIN ueba_before.agent_baselines
    /\ FoundDeviations = <<(<<2, 1>>), (<<3, 1>>)>>
    /\ threat_scores[ueba_call.agent_id] = One
    /\ Len(security_alerts) = 1
    /\ security_alerts[1].threat_level = "critical"

\* establish_baseline put a score of 1.0 back to 0
C29_ResetByBaseline ==
    /\ ueba_call.action = "establish_baseline"
    /\ ueba_call.agent_id \in DOMAIN ueba_before.threat_scores
    /\ ueba_before.threat_scores[ueba_call.agent_id] = One
    /\ threat_scores[ueba_call.agent_id] = Zero

----------------------------------------------------------------------------
\* the answer to a predict_failures request for a well-formed vehicle ID
IsForecast ==
    /\ mh_request.action_type = "predict_failures"
    /\ mh_response.error = "none"

\* total_probability of the named component for the vehicle of the answer,
\* the call having been made in the year current_year
TotalOf(name, current_year) ==
    LET i == CHOOSE j \in DOMAIN Components : Components[j].name = name IN
    TotalProbability(Components[i], current_year - mh_response.vehicle_data.year,
                     mh_response.vehicle_data)

SevenSortedAndCounted ==
    LET predictions == mh_response.predictions
        summary == mh_response.summary
    IN  /\ Len(predictions) = 7
        /\ \A name \in ComponentNames :
               Cardinality({k \in DOMAIN predictions :
                               predictions[k].component = name}) = 1
        /\ \A k \in 1..(Len(predictions) - 1) :
               predictions[k].failure_probability
                   >= predictions[k + 1].failure_probability
        /\ summary.high_risk_components + summary.medium_risk_components
               + summary.low_risk_components = 7

\* C30 as stated: predict_failures returns seven predictions, one per
\* component, in non-increasing order of failure_probability; a prediction's
\* severity is High exactly when its failure_probability is above 0.7,
\* Medium when it is above 0.4 and at most 0.7, Low otherwise; the summary's
\* three counts sum to seven.
C30_SeverityOfReportedProbability ==
    IsForecast
        => /\ SevenSortedAndCounted
           /\ \A k \in DOMAIN mh_response.predictions :
                  LET p == mh_response.predictions[k] IN
                  /\ p.severity = "High" <=> p.failure_probability > 700
                  /\ p.severity = "Medium"
                         <=> (p.failure_probability > 400 /\ p.failure_probability <= 700)
                  /\ p.severity = "Low" <=> p.failure_probability <= 400

\* C30 (amended): predict_failures returns seven predictions, one per
\* component, in non-increasing order of failure_probability; the severity
\* goes by the probability before it is rounded to three decimals: High
\* exactly when that is above 0.7, Medium when it is above 0.4 and at most
\* 0.7, Low otherwise, so that a reported 0.7 is High or Medium and a
\* reported 0.4 is Medium or Low; the summary counts the predictions of
\* each severity and its three counts sum to seven.
C30_SeverityOfUnroundedProbability ==
    IsForecast
        => /\ SevenSortedAndCounted
           /\ \E current_year \in FirstYear..mh_year :
               \A k \in DOMAIN mh_response.predictions :
                  LET p == mh_response.predictions[k]
                      total_probability == TotalOf(p.component, current_year)
                  IN  /\ p.failure_probability
                             = Round3(p.component, mh_response.vehicle_data.mileage,
                                      total_probability)
                      /\ p.severity = "High" <=> total_probability > 700000
                      /\ p.severity = "Medium"
                             <=> (total_probability > 400000 /\ total_probability <= 700000)
                      /\ p.severity = "Low" <=> total_probability <= 400000
                      /\ p.failure_probability > 700 => p.severity = "High"
                      /\ p.failure_probability < 400 => p.severity = "Low"
                      /\ (p.failure_probability > 400 /\ p.failure_probability < 700)
                             => p.severity = "Medium"
           /\ \A s \in {"High", "Medium", "Low"} :
                  LET counted == Cardinality({k \in DOMAIN mh_response.predictions :
                                                 mh_response.predictions[k].severity = s})
                  IN  CASE s = "High" -> mh_response.summary.high_risk_components = counted
                        [] s = "Medium" -> mh_response.summary.medium_risk_components = counted
                        [] s = "Low" -> mh_response.summary.low_risk_components = counted

\* VEH010 with 68800 miles: Brake Pads reported at 0.7 and High, first of
\* seven, with a Medium and five Low after it
C30_Witness ==
    /\ IsForecast
    /\ Len(mh_response.predictions) = 7
    /\ mh_response.predictions[1].component = "Brake Pads"
    /\ mh_response.predictions[1].failure_probability = 700
    /\ mh_response.predictions[1].severity = "High"
    /\ mh_response.summary.high_risk_components = 1
    /\ mh_response.summary.medium_risk_components = 1
    /\ mh_response.summary.low_risk_components = 5

\* VEH003 with 31260 miles: Brake Pads reported at 0.4 and Medium
C30_ReportedFourTenthsMedium ==
    /\ IsForecast
    /\ \E k \in DOMAIN mh_response.predictions :
           /\ mh_response.predictions[k].failure_probability = 400
           /\ mh_response.predictions[k].severity = "Medium"

====
